---- MODULE Spec2Model ----
(***************************************************************************)
(* CrawlSpider (scrapy/spiders/crawl.py): the rule table, its compilation, *)
(* the routing of responses and failures to the rule that produced their   *)
(* request, and the traversal generator parse_with_rules /                 *)
(* _requests_to_follow, driven one pull at a time by the fetch engine.     *)
(***************************************************************************)
EXTENDS Integers, Sequences, FiniteSets, TLC

VARIABLES
    rules,          \* CrawlSpider.rules: the declared rule table (class attribute)
    _rules,         \* CrawlSpider._rules: the compiled rule table of the instance
    _follow_links,  \* CrawlSpider._follow_links: a boolean, or Unset when never assigned
    pending,        \* requests handed to the fetch engine and not yet answered
    gen,            \* the generator the engine is draining (parse_with_rules / _handle_failure)
    unhandled,      \* requests whose failure no errback took: left to the fetch engine
    crawler,        \* the crawler from_crawler was given, None for CrawlSpider(...)
    emitted,        \* history: the follow requests yielded so far, each with the
                    \* index of the rule in whose turn it was yielded
    gen2,           \* a second generator of the same spider, drained concurrently
    heap,           \* the Rule and dict objects, by identity (an index of the sequence)
    declarations,   \* the arguments of the Rule(...) calls of the class body, in order
    compiled,       \* per spider instance, the identities of the rules of its _rules
    overridden,     \* whether the spider's class overrides _parse_response
    warnings,       \* the warnings warnings.warn has emitted so far, in order
    last_call       \* history: the last call made on the spider from outside, its
                    \* arguments, the number of warnings before it and its result

vars ==
    <<rules, _rules, _follow_links, pending, gen, unhandled, crawler, emitted,
      gen2, heap, declarations, compiled, overridden, warnings, last_call>>

\* What a crawl of one spider instance, one response at a time, leaves alone
objects == <<gen2, heap, declarations, compiled, overridden, warnings, last_call>>

(***************************************************************************)
(* Bounds of the model.                                                    *)
(***************************************************************************)
MaxRules == 2       \* longest declared rule table
MaxPending == 2     \* requests the engine keeps in flight; further ones are not scheduled
MaxPulled == 3      \* items taken from a result that never ends

(***************************************************************************)
(* Python values.                                                          *)
(***************************************************************************)
None == [t |-> "None"]
Str(s) == [t |-> "str", v |-> s]
Func(f) == [t |-> "func", v |-> f]
Bool(b) == [t |-> "bool", v |-> b]
Dict(d) == [t |-> "dict", v |-> d]
LE(name) == [t |-> "LinkExtractor", v |-> name]
Unset == [t |-> "unset"]
NoKwargs == [k \in {} |-> None]

callable(x) == x.t = "func"
truthy(x) == x.t # "None"

\* The page of the test suite: three links, in document order.
Url(domain, path) == [domain |-> domain, path |-> path]
Link(path, text) == [url |-> Url("org", path), text |-> text]
test_body ==
    << Link("item", "Item 12"), Link("about", "About us"),
       Link("nofollow", "This shouldn't be followed") >>

start_url == Url("org", "index")

\* What the fetch engine may answer: the test page as an HtmlResponse, or a
\* response that is not HTML.
ResponseClasses == {"HtmlResponse", "TextResponse"}

\* LinkExtractor.extract_links: the links of the page the extractor allows,
\* in document order.  "default" is LinkExtractor(); "allow_item" allows
\* only the item link.
Allows(le, link) ==
    CASE le = "default" -> TRUE
      [] le = "allow_item" -> link.url.path = "item"

extract_links(le, response) == SelectSeq(response.body, LAMBDA l : Allows(le, l))

(***************************************************************************)
(* The spider class: its methods (user code) by name.                      *)
(***************************************************************************)
SpiderMethods ==
    { "parse_item", "parse_page", "on_error", "filter_process_links",
      "process_request_drop", "process_request_replace_meta",
      "dummy_process_links", "dummy_process_links_generator" }

\* The attributes of the spider that are not methods: name = "test"
SpiderAttributes == {"name"}

\* getattr(spider, name, None): whatever the spider has under the name
getattr(name) ==
    IF name \in SpiderMethods THEN Func(name)
    ELSE IF name \in SpiderAttributes THEN Str("test")
    ELSE None

\* A name is taken for a method whether or not the spider has it
_get_method_Unresolved(method) ==
    IF callable(method) THEN method
    ELSE IF method.t = "str" THEN Func(method.v)
    ELSE None

\* _get_method(method, spider)
_get_method(method) ==
    IF callable(method) THEN method
    ELSE IF method.t = "str" THEN getattr(method.v)
    ELSE None

\* follow, when unset, is true whether or not a callback is given
Rule_FollowUnsetTrue(link_extractor, callback, cb_kwargs, follow, process_links, process_request, errback) ==
    [ link_extractor |-> IF truthy(link_extractor) THEN link_extractor.v ELSE "default",
      callback |-> callback,
      errback |-> errback,
      cb_kwargs |-> IF truthy(cb_kwargs) THEN cb_kwargs.v ELSE NoKwargs,
      process_links |-> IF truthy(process_links) THEN process_links
                        ELSE Func("_identity"),
      process_request |-> IF truthy(process_request) THEN process_request
                          ELSE Func("_identity_process_request"),
      follow |-> IF follow # None THEN follow.v ELSE TRUE ]

\* Rule.__init__
Rule(link_extractor, callback, cb_kwargs, follow, process_links, process_request, errback) ==
    [ link_extractor |-> IF truthy(link_extractor) THEN link_extractor.v ELSE "default",
      callback |-> callback,
      errback |-> errback,
      cb_kwargs |-> IF truthy(cb_kwargs) THEN cb_kwargs.v ELSE NoKwargs,
      process_links |-> IF truthy(process_links) THEN process_links
                        ELSE Func("_identity"),
      process_request |-> IF truthy(process_request) THEN process_request
                          ELSE Func("_identity_process_request"),
      follow |-> IF follow # None THEN follow.v ELSE ~truthy(callback) ]

\* Rule._compile, on the copy _compile_rules made
_compile(rule) ==
    [ rule EXCEPT !.callback = _get_method(rule.callback),
                  !.errback = _get_method(rule.errback),
                  !.process_links = _get_method(rule.process_links),
                  !.process_request = _get_method(rule.process_request) ]

\* CrawlSpider._compile_rules
_compile_rules(declared) == [i \in DOMAIN declared |-> _compile(declared[i])]

(***************************************************************************)
(* The rules a spider class of the model may declare.                      *)
(***************************************************************************)
\* callback, cb_kwargs, follow and errback as declared:
\*   Rule(...), Rule(..., callback="parse_page"),
\*   Rule(..., callback="parse_item", cb_kwargs={"page": "x"}, follow=True,
\*        errback="on_error")
RoutingChoices ==
    { [callback |-> None, cb_kwargs |-> None, follow |-> None, errback |-> None],
      [callback |-> Str("parse_page"), cb_kwargs |-> None, follow |-> None,
       errback |-> None],
      [callback |-> Str("parse_item"), cb_kwargs |-> Dict([page |-> "x"]),
       follow |-> Bool(TRUE), errback |-> Str("on_error")] }

\* link_extractor, process_links and process_request as declared: all
\* defaults, or one of them given
ExtractionChoices ==
    { [link_extractor |-> None, process_links |-> None, process_request |-> None],
      [link_extractor |-> LE("allow_item"), process_links |-> None,
       process_request |-> None],
      [link_extractor |-> None, process_links |-> Str("filter_process_links"),
       process_request |-> None],
      [link_extractor |-> None, process_links |-> None,
       process_request |-> Str("process_request_drop")],
      [link_extractor |-> None, process_links |-> None,
       process_request |-> Func("process_request_change_domain")],
      [link_extractor |-> None, process_links |-> None,
       process_request |-> Str("process_request_replace_meta")] }

RuleChoices ==
    { Rule(e.link_extractor, r.callback, r.cb_kwargs, r.follow, e.process_links,
           e.process_request, r.errback) :
        r \in RoutingChoices, e \in ExtractionChoices }

RECURSIVE SeqsUpTo(_, _)
SeqsUpTo(S, n) ==
    IF n = 0 THEN {<<>>}
    ELSE LET shorter == SeqsUpTo(S, n - 1)
         IN shorter \cup {Append(t, r) : t \in shorter, r \in S}

RuleTables == SeqsUpTo(RuleChoices, MaxRules) \ {<<>>}

(***************************************************************************)
(* Requests, responses and what user code returns.                         *)
(***************************************************************************)
NoMeta == [k \in {} |-> None]

\* Request(url): no callback (the engine then calls Spider._parse), no
\* errback, no callback arguments (the engine calls the callback with the
\* response and the request's cb_kwargs)
Request(url) ==
    [ kind |-> "Request", url |-> url, callback |-> "_parse", errback |-> "None",
      meta |-> NoMeta, cb_kwargs |-> NoKwargs ]

Item(v) == [kind |-> "item", v |-> v]

\* An element of a result that is itself a list or a generator of items
Nested(items) == [kind |-> "nested", items |-> items]

IsRequest(x) == "kind" \in DOMAIN x /\ x.kind = "Request"

\* The rule index is counted from one
_build_request_OneBased(rule_index, link) ==
    [ kind |-> "Request", url |-> link.url, callback |-> "_callback",
      errback |-> "_errback",
      meta |-> [rule |-> rule_index + 1, link_text |-> link.text],
      cb_kwargs |-> NoKwargs ]

\* CrawlSpider._build_request
_build_request(rule_index, link) ==
    [ kind |-> "Request", url |-> link.url, callback |-> "_callback",
      errback |-> "_errback",
      meta |-> [rule |-> rule_index, link_text |-> link.text],
      cb_kwargs |-> NoKwargs ]

\* The response (or failure) the engine hands back for a request: it carries
\* the request's metadata.
ResponseFor(request, cls) ==
    [ url |-> request.url, cls |-> cls,
      meta |-> request.meta, body |-> test_body ]

FailureFor(request) ==
    [ url |-> request.url, cls |-> "Failure", meta |-> request.meta,
      body |-> <<>> ]

\* rule.process_links(links): the links the for loop of line 146 takes from
\* what the link filter returns, in order.  dummy_process_links returns the
\* list it is given; dummy_process_links_generator is a generator function
\* (yield from links), whose links are produced as the loop asks for them.
call_process_links(f, links) ==
    CASE f.v = "_identity" -> links
      [] f.v = "dummy_process_links" -> links
      [] f.v = "dummy_process_links_generator" ->
            [k \in 1..Len(links) |-> links[k]]
      [] f.v = "filter_process_links" ->
            SelectSeq(links, LAMBDA l : l.url.path # "nofollow")

\* rule.process_request(request, response)
call_process_request(f, request, response) ==
    CASE f.v = "_identity_process_request" -> request
      [] f.v = "process_request_change_domain" ->
            [request EXCEPT !.url.domain = "com"]
      [] f.v = "process_request_drop" ->
            IF request.url.path = "about" THEN None ELSE request
      [] f.v = "process_request_replace_meta" ->
            [request EXCEPT !.meta = [dont_cache |-> TRUE]]
      [] f.v = "process_request_cb_kwargs_page" ->
            [request EXCEPT !.cb_kwargs = [page |-> "y"]]
      [] f.v = "process_request_cb_kwargs_extra" ->
            [request EXCEPT !.cb_kwargs = [extra |-> "z"]]
      [] f.v = "process_request_meta_response_class" ->
            [request EXCEPT !.meta =
                [k \in DOMAIN request.meta \cup {"response_class"} |->
                    IF k = "response_class" THEN response.cls
                    ELSE request.meta[k]]]

\* What a method of the spider returns when called as a callback or an
\* errback, as the list iterate_spider_output walks (None counts as empty)
UserOutput(f) ==
    CASE f.v = "parse_start_url" -> <<>>
      [] f.v = "parse_item" -> <<Item("a"), Item("b")>>
      [] f.v = "parse_page" -> <<Item("c")>>
      [] f.v = "on_error" -> <<Item("e")>>
      [] OTHER -> <<>>

\* What calling a function of user code gives: None, a list, a generator, a
\* coroutine that resolves to a list, an asynchronous generator, or an
\* exception (shape "raise").  items are the items it gives in order; end
\* tells what follows them: the result ends ("stop"), raises ("raise"), or
\* gives the same items again for ever ("loop").
Result(shape, items, end) == [shape |-> shape, items |-> items, end |-> end]

UserResult(f) ==
    CASE f.v = "parse_none" -> Result("None", <<>>, "stop")
      [] f.v = "parse_coroutine" -> Result("coroutine", <<Item("a"), Item("b")>>, "stop")
      [] f.v = "parse_asyncgen" -> Result("asyncgen", <<Item("a"), Item("b")>>, "stop")
      [] f.v = "parse_generator" -> Result("generator", <<Item("a"), Item("b")>>, "stop")
      [] f.v = "parse_forever" -> Result("generator", <<Item("a"), Item("b")>>, "loop")
      [] f.v = "parse_async_forever" -> Result("asyncgen", <<Item("a"), Item("b")>>, "loop")
      [] f.v = "parse_raises" -> Result("raise", <<>>, "raise")
      [] f.v = "parse_generator_raises" -> Result("generator", <<Item("a")>>, "raise")
      [] f.v = "parse_asyncgen_raises" -> Result("asyncgen", <<Item("a")>>, "raise")
      [] f.v = "parse_nested" ->
            Result("list", <<Item("a"), Nested(<<Item("b"), Item("c")>>), Item("d")>>,
                   "stop")
      [] f.v = "parse_nested_generator" ->
            Result("generator", <<Nested(<<Item("a"), Item("b")>>), Item("c")>>, "stop")
      [] f.v = "parse_nested_asyncgen" ->
            Result("asyncgen", <<Item("a"), Nested(<<Item("b")>>)>>, "stop")
      [] OTHER -> Result("list", UserOutput(f), "stop")

\* The link filters and request filters of user code that raise
Raises(f) == f.v \in {"process_links_raises", "process_request_raises"}

\* result or (): None and the empty list give the empty tuple
OrEmpty(res) ==
    IF res.shape = "None" \/ (res.shape = "list" /\ res.items = <<>>)
    THEN Result("list", <<>>, "stop")
    ELSE res

\* callback(response, **cb_kwargs)
call_callback(f, response, cb_kwargs) == UserResult(f)

\* errback(failure)
call_errback(f, failure) == UserResult(f)

\* CrawlSpider.process_results
process_results(response, results) == results

\* scrapy.utils.spider.iterate_spider_output, as the specification describes
\* it: an element that is itself a list or a generator is expanded one
\* level into its elements, in order; the other elements pass through
RECURSIVE iterate_spider_output(_)
iterate_spider_output(results) ==
    IF results = <<>> THEN <<>>
    ELSE (IF Head(results).kind = "nested" THEN Head(results).items
          ELSE <<Head(results)>>) \o iterate_spider_output(Tail(results))

\* The results are walked as they are
Iterated_Unflattened(fn, response, results) ==
    IF fn = "parse_with_rules" THEN process_results(response, results)
    ELSE results

\* parse_with_rules, lines 179-180, and _handle_failure, line 207: what the
\* loop walks, process_results applied first in parse_with_rules only
Iterated(fn, response, results) ==
    IF fn = "parse_with_rules"
    THEN iterate_spider_output(process_results(response, results))
    ELSE iterate_spider_output(results)

(***************************************************************************)
(* The generator objects: parse_with_rules and _handle_failure.            *)
(***************************************************************************)
Idle ==
    [ pc |-> "idle", fn |-> "", request |-> None, response |-> None,
      callback |-> None, cb_kwargs |-> NoKwargs, follow |-> FALSE,
      cb_res |-> <<>>, rule_index |-> 0, links |-> <<>>, seen |-> {},
      out |-> <<>>, calls |-> <<>>, error |-> "",
      src |-> Result("list", <<>>, "stop"), cb_end |-> "stop",
      pulled |-> 0, demanded |-> 0 ]

\* parse_with_rules(response, callback, cb_kwargs, follow): nothing runs
\* until the first item is asked for
parse_with_rules(request, response, callback, cb_kwargs, follow) ==
    [ Idle EXCEPT !.pc = "created", !.fn = "parse_with_rules",
                  !.request = request, !.response = response,
                  !.callback = callback, !.cb_kwargs = cb_kwargs,
                  !.follow = follow ]

\* _handle_failure(failure, errback)
_handle_failure(request, failure, errback) ==
    [ Idle EXCEPT !.pc = "created", !.fn = "_handle_failure",
                  !.request = request, !.response = failure,
                  !.callback = errback ]

Raised(request, response, fn, error) ==
    [ Idle EXCEPT !.pc = "raised", !.fn = fn, !.request = request,
                  !.response = response, !.error = error ]

\* On a shared key the rule's value is kept
MergeKwargs_RuleWins(a, b) ==
    [k \in DOMAIN a \cup DOMAIN b |-> IF k \in DOMAIN a THEN a[k] ELSE b[k]]

\* {**rule.cb_kwargs, **cb_kwargs}
MergeKwargs(a, b) ==
    [k \in DOMAIN a \cup DOMAIN b |-> IF k \in DOMAIN b THEN b[k] ELSE a[k]]

\* self._rules[response.meta["rule"]]: the rule, or the error of the lookup
RuleLookup(table, meta) ==
    IF "rule" \notin DOMAIN meta THEN [ok |-> FALSE, error |-> "KeyError"]
    ELSE IF meta.rule < 0 \/ meta.rule >= Len(table)
         THEN [ok |-> FALSE, error |-> "IndexError"]
    ELSE [ok |-> TRUE, rule |-> table[meta.rule + 1]]

\* The start page is traversed with follow off
_parse_FollowOff(request, response) ==
    parse_with_rules(request, response, Func("parse_start_url"), NoKwargs, FALSE)

\* CrawlSpider._parse
_parse(request, response) ==
    parse_with_rules(request, response, Func("parse_start_url"), NoKwargs, TRUE)

\* The rule looked up is always the first of the table
_callback_FirstRule(table, request, response) ==
    IF "rule" \notin DOMAIN response.meta
    THEN Raised(request, response, "_callback", "KeyError")
    ELSE parse_with_rules(request, response, table[1].callback,
                          MergeKwargs(table[1].cb_kwargs, request.cb_kwargs),
                          table[1].follow)

\* CrawlSpider._callback, called by the engine with the response and the
\* cb_kwargs of its request
_callback(table, request, response) ==
    LET found == RuleLookup(table, response.meta)
    IN IF ~found.ok THEN Raised(request, response, "_callback", found.error)
       ELSE parse_with_rules(request, response, found.rule.callback,
                             MergeKwargs(found.rule.cb_kwargs, request.cb_kwargs),
                             found.rule.follow)

\* The rule's callback is handed to _handle_failure
_errback_Callback(table, request, failure) ==
    LET found == RuleLookup(table, failure.meta)
    IN IF ~found.ok THEN Raised(request, failure, "_errback", found.error)
       ELSE _handle_failure(request, failure, found.rule.callback)

\* CrawlSpider._errback
_errback(table, request, failure) ==
    LET found == RuleLookup(table, failure.meta)
    IN IF ~found.ok THEN Raised(request, failure, "_errback", found.error)
       ELSE _handle_failure(request, failure, found.rule.errback)

Last(seq) == seq[Len(seq)]

Close(g) == [g EXCEPT !.pc = "closed"]

\* The error is dropped and the generator ends normally
Raise_Swallowed(g, error) == [g EXCEPT !.pc = "closed"]

Raise(g, error) == [g EXCEPT !.pc = "raised", !.error = error]

Called(g, call) == [g EXCEPT !.calls = Append(@, call)]

\* The seen-set is not consulted
NotSeen_Unfiltered(extracted, seen) == extracted

\* The remaining links are taken as a set difference and lose the
\* extractor's order: they come out last first
NotSeen_Reversed(extracted, seen) ==
    LET kept == SelectSeq(extracted, LAMBDA lnk : lnk \notin seen)
    IN [k \in 1..Len(kept) |-> kept[Len(kept) + 1 - k]]

\* _requests_to_follow, lines 141-145: the links of the extractor that are
\* not in the seen-set
NotSeen(extracted, seen) == SelectSeq(extracted, LAMBDA lnk : lnk \notin seen)

\* The generator returns when the request filter returns None
FollowLink_StopOnNone(rule, g) ==
    LET link == Head(g.links)
        request == _build_request(g.rule_index, link)
        result == call_process_request(rule.process_request, request, g.response)
        g1 == Called(g, [fn |-> "process_request", rule |-> g.rule_index,
                         link |-> link, arg |-> request,
                         response |-> g.response, ret |-> result])
    IN IF result = None
       THEN [g1 EXCEPT !.seen = @ \cup {link}, !.out = Append(@, result),
                       !.pc = "closed"]
       ELSE [g1 EXCEPT !.seen = @ \cup {link}, !.links = Tail(g.links),
                       !.out = Append(@, result), !.pc = "yield_follow"]

\* The request is yielded as it was built: the request filter's result is
\* not used
FollowLink_SkipsFilter(rule, g) ==
    LET link == Head(g.links)
        request == _build_request(g.rule_index, link)
        result == call_process_request(rule.process_request, request, g.response)
    IN [ Called(g, [fn |-> "process_request", rule |-> g.rule_index,
                    link |-> link, arg |-> request, response |-> g.response,
                    ret |-> result])
         EXCEPT !.seen = @ \cup {link}, !.links = Tail(g.links),
                !.out = Append(@, request), !.pc = "yield_follow" ]

\* The link enters the seen-set once its request has been yielded, and only
\* when the request filter returned the request for it
FollowLink_SeenAfterFilter(rule, g) ==
    LET link == Head(g.links)
        request == _build_request(g.rule_index, link)
        result == call_process_request(rule.process_request, request, g.response)
    IN [ Called(g, [fn |-> "process_request", rule |-> g.rule_index,
                    link |-> link, arg |-> request, response |-> g.response,
                    ret |-> result])
         EXCEPT !.seen = IF IsRequest(result) /\ result.url = link.url
                         THEN @ \cup {link} ELSE @,
                !.links = Tail(g.links),
                !.out = Append(@, result), !.pc = "yield_follow" ]

\* _requests_to_follow, lines 147-149: one turn of the inner loop, up to its
\* yield, or to the exception of the request filter.  The link is added to
\* the seen-set and its request built before the filter is called; a filter
\* that is not callable (None, for a name the spider does not have) makes
\* the call raise TypeError.
FollowLink(rule, g) ==
    LET link == Head(g.links)
        request == _build_request(g.rule_index, link)
    IN IF ~callable(rule.process_request)
       THEN Raise([g EXCEPT !.seen = @ \cup {link}], "TypeError")
       ELSE IF Raises(rule.process_request)
       THEN Raise([ Called(g, [fn |-> "process_request", rule |-> g.rule_index,
                               link |-> link, arg |-> request,
                               response |-> g.response, ret |-> None,
                               raises |-> TRUE])
                    EXCEPT !.seen = @ \cup {link} ], "UserError")
       ELSE LET result == call_process_request(rule.process_request, request,
                                               g.response)
            IN [ Called(g, [fn |-> "process_request", rule |-> g.rule_index,
                            link |-> link, arg |-> request,
                            response |-> g.response, ret |-> result])
                 EXCEPT !.seen = @ \cup {link}, !.links = Tail(g.links),
                        !.out = Append(@, result), !.pc = "yield_follow" ]

\* _requests_to_follow, lines 140-149: the loops, run until the next yield or
\* the end of the rule table.  A link filter that is not callable (None, for
\* a name the spider does not have) makes its call raise TypeError, after
\* the extractor was called.
RECURSIVE NextLink(_, _)
RECURSIVE NextRule(_, _, _)
\* Every link the rule's extractor matched enters the seen-set when the
\* rule's turn ends, whether or not the link filter returned it
NextLink_SeenAllExtracted(table, g) ==
    IF g.links # <<>> THEN FollowLink(table[g.rule_index + 1], g)
    ELSE LET extracted == extract_links(table[g.rule_index + 1].link_extractor,
                                        g.response)
         IN NextRule(table,
                     [g EXCEPT !.seen = @ \cup {extracted[k] : k \in DOMAIN extracted}],
                     g.rule_index + 1)

NextLink(table, g) ==
    IF g.links # <<>> THEN FollowLink(table[g.rule_index + 1], g)
    ELSE NextRule(table, g, g.rule_index + 1)

\* A rule whose own follow flag is false is passed over
NextRule_SkipNoFollow(table, g, i) ==
    IF i >= Len(table) THEN Close(g)
    ELSE IF ~table[i + 1].follow THEN NextRule(table, g, i + 1)
    ELSE LET rule == table[i + 1]
             extracted == extract_links(rule.link_extractor, g.response)
             links == NotSeen(extracted, g.seen)
             kept == call_process_links(rule.process_links, links)
             g1 == Called(Called(g, [fn |-> "extract_links", rule |-> i,
                                     ret |-> extracted]),
                          [fn |-> "process_links", rule |-> i, arg |-> links,
                           ret |-> kept])
         IN NextLink(table, [g1 EXCEPT !.rule_index = i, !.links = kept])

NextRule(table, g, i) ==
    IF i >= Len(table) THEN Close(g)
    ELSE LET rule == table[i + 1]
             extracted == extract_links(rule.link_extractor, g.response)
             links == NotSeen(extracted, g.seen)
             g0 == Called(g, [fn |-> "extract_links", rule |-> i,
                              ret |-> extracted])
         IN IF ~callable(rule.process_links) THEN Raise(g0, "TypeError")
            ELSE IF Raises(rule.process_links)
            THEN Raise(Called(g0, [fn |-> "process_links", rule |-> i,
                                   arg |-> links, ret |-> <<>>,
                                   raises |-> TRUE]), "UserError")
            ELSE LET kept == call_process_links(rule.process_links, links)
                     g1 == Called(g0, [fn |-> "process_links", rule |-> i,
                                       arg |-> links, ret |-> kept])
                 IN NextLink(table, [g1 EXCEPT !.rule_index = i, !.links = kept])

\* The class of the response is not tested
_requests_to_follow_AnyResponse(table, g) == NextRule(table, [g EXCEPT !.seen = {}], 0)

\* _requests_to_follow, lines 137-139: a call from parse_with_rules, run until
\* the first yield
_requests_to_follow(table, g) ==
    IF g.response.cls # "HtmlResponse" THEN Close(g)
    ELSE NextRule(table, [g EXCEPT !.seen = {}], 0)

\* The follow argument is not read
FollowPart_IgnoreFollow(table, follow_links, g) ==
    IF follow_links = Unset THEN Raise(g, "AttributeError")
    ELSE IF ~follow_links.v THEN Close(g)
    ELSE _requests_to_follow(table, g)

\* parse_with_rules, lines 183-185
FollowPart(table, follow_links, g) ==
    IF ~g.follow THEN Close(g)
    ELSE IF follow_links = Unset THEN Raise(g, "AttributeError")
    ELSE IF ~follow_links.v THEN Close(g)
    ELSE _requests_to_follow(table, g)

\* The callback's output is emitted from its last item backwards
DrainOutput_LastFirst(table, follow_links, g) ==
    IF g.cb_res # <<>>
    THEN [g EXCEPT !.out = Append(@, Last(g.cb_res)),
                   !.cb_res = SubSeq(@, 1, Len(@) - 1), !.pc = "yield_cb"]
    ELSE IF g.fn = "parse_with_rules" THEN FollowPart(table, follow_links, g)
    ELSE Close(g)

\* The error the callback's output raises is taken for its end: the follow
\* step runs after it
DrainOutput_FollowAfterError(table, follow_links, g) ==
    IF g.cb_res # <<>>
    THEN [g EXCEPT !.out = Append(@, Head(g.cb_res)),
                   !.cb_res = IF g.cb_end = "loop" THEN Append(Tail(@), Head(@))
                              ELSE Tail(@),
                   !.pulled = IF g.src.shape = "asyncgen" THEN @ ELSE @ + 1,
                   !.pc = "yield_cb"]
    ELSE IF g.fn = "parse_with_rules" THEN FollowPart(table, follow_links, g)
    ELSE Close(g)

\* parse_with_rules, lines 180-181, and _handle_failure, line 207: the next
\* item of the callback's (errback's) output, or what follows the loop.  A
\* list or a generator gives its items as they are asked for; the list
\* collected from an asynchronous generator was taken from it before.
DrainOutput(table, follow_links, g) ==
    IF g.cb_res # <<>>
    THEN [g EXCEPT !.out = Append(@, Head(g.cb_res)),
                   !.cb_res = IF g.cb_end = "loop" THEN Append(Tail(@), Head(@))
                              ELSE Tail(@),
                   !.pulled = IF g.src.shape = "asyncgen" THEN @ ELSE @ + 1,
                   !.pc = "yield_cb"]
    ELSE IF g.cb_end = "raise" THEN Raise(g, "UserError")
    ELSE IF g.fn = "parse_with_rules" THEN FollowPart(table, follow_links, g)
    ELSE Close(g)

\* The list collected from an asynchronous generator holds its last item only
Await_KeepsLast(table, follow_links, g) ==
    IF g.src.shape = "coroutine"
    THEN IF g.src.end = "raise" THEN Raise(g, "UserError")
         ELSE DrainOutput(table, follow_links,
                  [g EXCEPT !.cb_res = process_results(g.response, g.src.items),
                            !.cb_end = "stop"])
    ELSE IF g.src.items # <<>>
    THEN [g EXCEPT !.cb_res = <<Head(g.src.items)>>,
                   !.src.items = IF g.src.end = "loop"
                                 THEN Append(Tail(@), Head(@)) ELSE Tail(@),
                   !.pulled = @ + 1]
    ELSE IF g.src.end = "raise" THEN Raise(g, "UserError")
    ELSE DrainOutput(table, follow_links,
             [g EXCEPT !.cb_res = process_results(g.response, g.cb_res),
                       !.cb_end = "stop"])

\* parse_with_rules, lines 175-179: one step of what the generator awaits.
\* A coroutine resolves to its list, or raises; collect_asyncgen takes one
\* more item of the asynchronous generator into its list, and returns the
\* list once the generator has ended.  Then process_results and the loop.
Await(table, follow_links, g) ==
    IF g.src.shape = "coroutine"
    THEN IF g.src.end = "raise" THEN Raise(g, "UserError")
         ELSE DrainOutput(table, follow_links,
                  [g EXCEPT !.cb_res = Iterated(g.fn, g.response, g.src.items),
                            !.cb_end = "stop"])
    ELSE IF g.src.items # <<>>
    THEN [g EXCEPT !.cb_res = Append(@, Head(g.src.items)),
                   !.src.items = IF g.src.end = "loop"
                                 THEN Append(Tail(@), Head(@)) ELSE Tail(@),
                   !.pulled = @ + 1]
    ELSE IF g.src.end = "raise" THEN Raise(g, "UserError")
    ELSE DrainOutput(table, follow_links,
             [g EXCEPT !.cb_res = Iterated(g.fn, g.response, g.cb_res),
                       !.cb_end = "stop"])

\* parse_with_rules, lines 173-179, and _handle_failure, lines 205-206: the
\* call of the callback (errback), up to the first item, the first await or
\* the exception.  _handle_failure iterates what the errback returned and
\* cannot iterate a coroutine or an asynchronous generator.  A callback that
\* is neither None nor callable (an attribute of the spider that is no
\* method) makes the call raise TypeError.
CallBack(table, follow_links, g) ==
    IF ~truthy(g.callback) THEN DrainOutput(table, follow_links, g)
    ELSE IF ~callable(g.callback) THEN Raise(g, "TypeError")
    ELSE LET called == IF g.fn = "parse_with_rules"
                       THEN call_callback(g.callback, g.response, g.cb_kwargs)
                       ELSE call_errback(g.callback, g.response)
             res == OrEmpty(called)
             g1 == Called(g, [fn |-> "callback", f |-> g.callback,
                              cb_kwargs |-> g.cb_kwargs, ret |-> called.items,
                              res |-> called])
         IN CASE called.shape = "raise" -> Raise(g1, "UserError")
              [] res.shape \in {"asyncgen", "coroutine"} ->
                    IF g.fn = "parse_with_rules"
                    THEN [g1 EXCEPT !.pc = "await", !.src = res]
                    ELSE Raise(g1, "TypeError")
              [] OTHER ->
                    DrainOutput(table, follow_links,
                        [g1 EXCEPT !.src = res, !.cb_end = res.end,
                                   !.cb_res = Iterated(g.fn, g.response,
                                                       res.items)])

\* One item asked of the generator: its code from where it is suspended to
\* its next yield, its next await, its end or its error.
Resume(table, follow_links, g) ==
    LET asked == [g EXCEPT !.demanded = @ + 1]
    IN CASE g.pc = "created" -> CallBack(table, follow_links, asked)
         [] g.pc = "yield_cb" -> DrainOutput(table, follow_links, asked)
         [] g.pc = "yield_follow" -> NextLink(table, asked)

Suspended(g) == g.pc \in {"created", "yield_cb", "yield_follow"}

Yielded(g) == g.pc \in {"yield_cb", "yield_follow"}

(***************************************************************************)
(* The spider instance and the fetch engine around it.                     *)
(***************************************************************************)
\* A call made on the spider from outside: the constructor, _parse_response
\* or parse_with_rules, with its arguments, the number of warnings emitted
\* before it and what it returned
Call(fn, response, callback, cb_kwargs, follow, before, value) ==
    [ fn |-> fn, response |-> response, callback |-> callback,
      cb_kwargs |-> cb_kwargs, follow |-> follow, before |-> before,
      value |-> value ]

NoCall == Call("", None, None, NoKwargs, FALSE, 0, None)

\* The crawlers from_crawler may be given: their settings
Crawlers == {[CRAWLSPIDER_FOLLOW_LINKS |-> b] : b \in BOOLEAN}

\* The setting is not read
from_crawler_AlwaysFollow(c) == Bool(TRUE)

\* CrawlSpider.from_crawler: the value it assigns to spider._follow_links
from_crawler(c) == Bool(c.CRAWLSPIDER_FOLLOW_LINKS)

\* The engine schedules a request the spider emitted, while it has room
Schedule(queue, x) ==
    IF IsRequest(x) /\ Cardinality(queue \cup {x}) <= MaxPending
    THEN queue \cup {x} ELSE queue

\* The spider instances of the model
Instances == {"A", "B"}

Init ==
    /\ rules \in RuleTables
    /\ _rules = _compile_rules(rules)
    /\ crawler \in Crawlers \cup {None}
    /\ _follow_links = IF crawler = None THEN Unset ELSE from_crawler(crawler)
    /\ pending = {Request(start_url)}
    /\ gen = Idle
    /\ unhandled = {}
    /\ emitted = {}
    /\ gen2 = Idle
    /\ heap = <<>>
    /\ declarations = <<>>
    /\ compiled = [s \in Instances |-> <<>>]
    /\ overridden = FALSE
    /\ warnings = <<>>
    /\ last_call = NoCall

\* The fetch of a request succeeded: its callback is called with the response
Deliver(request, cls) ==
    /\ gen.pc = "idle"
    /\ request \in pending
    /\ pending' = pending \ {request}
    /\ gen' = IF request.callback = "_callback"
              THEN _callback(_rules, request, ResponseFor(request, cls))
              ELSE _parse(request, ResponseFor(request, cls))
    /\ UNCHANGED <<rules, _rules, _follow_links, unhandled, crawler, emitted>>
    /\ UNCHANGED objects

\* The fetch of a request failed: its errback, if it has one, is called with
\* the failure
Fail(request) ==
    /\ gen.pc = "idle"
    /\ request \in pending
    /\ pending' = pending \ {request}
    /\ IF request.errback = "_errback"
       THEN /\ gen' = _errback(_rules, request, FailureFor(request))
            /\ UNCHANGED unhandled
       ELSE /\ unhandled' = unhandled \cup {request}
            /\ UNCHANGED gen
    /\ UNCHANGED <<rules, _rules, _follow_links, crawler, emitted>>
    /\ UNCHANGED objects

\* parse_with_rules called directly on a spider that has not started to
\* crawl, as the tests call it, here with the callback, the extra arguments
\* and the follow flag of a rule of the table: what it yields goes to the
\* caller, not to the engine
CallParseWithRules(i, cls) ==
    /\ gen.pc = "idle"
    /\ pending = {Request(start_url)}
    /\ emitted = {}
    /\ unhandled = {}
    /\ gen' = parse_with_rules(None, ResponseFor(Request(start_url), cls),
                               _rules[i + 1].callback, _rules[i + 1].cb_kwargs,
                               _rules[i + 1].follow)
    /\ UNCHANGED <<rules, _rules, _follow_links, pending, unhandled, crawler, emitted>>
    /\ UNCHANGED objects

\* The table loses its last rule when a traversal ends
Pull_DropsRule ==
    /\ Suspended(gen)
    /\ gen.cb_end = "loop" => gen.pulled < MaxPulled
    /\ gen' = Resume(_rules, _follow_links, gen)
    /\ pending' = IF Yielded(gen') /\ gen.request # None
                  THEN Schedule(pending, Last(gen'.out))
                  ELSE pending
    /\ emitted' = IF /\ gen'.pc = "yield_follow"
                     /\ gen.request # None
                     /\ IsRequest(Last(gen'.out))
                  THEN emitted \cup {[request |-> Last(gen'.out),
                                      rule |-> gen'.rule_index]}
                  ELSE emitted
    /\ _rules' = IF gen'.pc = "closed" /\ gen'.calls # <<>>
                 THEN SubSeq(_rules, 1, Len(_rules) - 1) ELSE _rules
    /\ UNCHANGED <<rules, _follow_links, unhandled, crawler>>
    /\ UNCHANGED objects

\* The generator is asked for its next item, by the engine or by the caller
Pull ==
    /\ Suspended(gen)
    /\ gen.cb_end = "loop" => gen.pulled < MaxPulled
    /\ gen' = Resume(_rules, _follow_links, gen)
    /\ pending' = IF Yielded(gen') /\ gen.request # None
                  THEN Schedule(pending, Last(gen'.out))
                  ELSE pending
    /\ emitted' = IF /\ gen'.pc = "yield_follow"
                     /\ gen.request # None
                     /\ IsRequest(Last(gen'.out))
                  THEN emitted \cup {[request |-> Last(gen'.out),
                                      rule |-> gen'.rule_index]}
                  ELSE emitted
    /\ UNCHANGED <<rules, _rules, _follow_links, unhandled, crawler>>
    /\ UNCHANGED objects

\* The generator ended or raised: the engine is done with this response
Release ==
    /\ gen.pc \in {"closed", "raised"}
    /\ gen' = Idle
    /\ UNCHANGED <<rules, _rules, _follow_links, pending, unhandled, crawler, emitted>>
    /\ UNCHANGED objects

Next ==
    \/ \E request \in pending, cls \in ResponseClasses : Deliver(request, cls)
    \/ \E request \in pending : Fail(request)
    \/ \E i \in 0..(Len(_rules) - 1), cls \in ResponseClasses :
          CallParseWithRules(i, cls)
    \/ Pull
    \/ Release

Spec == Init /\ [][Next]_vars

(***************************************************************************)
(* Callbacks and filters of every kind: what they return as a list, a      *)
(* generator, a coroutine or an asynchronous generator, with or without an *)
(* end, and those that raise.                                              *)
(***************************************************************************)
UserCallbacks ==
    { "parse_item", "parse_none", "parse_coroutine", "parse_asyncgen",
      "parse_generator", "parse_forever", "parse_async_forever", "parse_raises",
      "parse_generator_raises", "parse_asyncgen_raises" }

\* Rule(callback=f, follow=True) for each callback, and rules whose link
\* filter or request filter raises
UserRuleChoices ==
    { Rule(None, Func(f), None, Bool(TRUE), None, None, None) : f \in UserCallbacks }
    \cup { Rule(None, Func("parse_item"), None, Bool(TRUE),
                Func("process_links_raises"), None, None),
           Rule(None, Func("parse_item"), None, Bool(TRUE), None,
                Func("process_request_raises"), None) }

UserTables == SeqsUpTo(UserRuleChoices, MaxRules) \ {<<>>}

InitUser ==
    /\ rules \in UserTables
    /\ _rules = _compile_rules(rules)
    /\ crawler \in Crawlers
    /\ _follow_links = from_crawler(crawler)
    /\ pending = {Request(start_url)}
    /\ gen = Idle
    /\ unhandled = {}
    /\ emitted = {}
    /\ gen2 = Idle
    /\ heap = <<>>
    /\ declarations = <<>>
    /\ compiled = [s \in Instances |-> <<>>]
    /\ overridden = FALSE
    /\ warnings = <<>>
    /\ last_call = NoCall

\* What the generator awaits makes one step: the event loop runs the
\* coroutine, or collect_asyncgen takes one more item
Collect ==
    /\ gen.pc = "await"
    /\ gen.pulled < MaxPulled
    /\ gen' = Await(_rules, _follow_links, gen)
    /\ pending' = IF Yielded(gen') /\ gen.request # None
                  THEN Schedule(pending, Last(gen'.out))
                  ELSE pending
    /\ emitted' = IF /\ gen'.pc = "yield_follow"
                     /\ gen.request # None
                     /\ IsRequest(Last(gen'.out))
                  THEN emitted \cup {[request |-> Last(gen'.out),
                                      rule |-> gen'.rule_index]}
                  ELSE emitted
    /\ UNCHANGED <<rules, _rules, _follow_links, unhandled, crawler>>
    /\ UNCHANGED objects

NextUser ==
    \/ \E request \in pending, cls \in ResponseClasses : Deliver(request, cls)
    \/ \E request \in pending : Fail(request)
    \/ \E i \in 0..(Len(_rules) - 1), cls \in ResponseClasses :
          CallParseWithRules(i, cls)
    \/ Pull
    \/ Collect
    \/ Release

SpecUser == InitUser /\ [][NextUser]_vars

(***************************************************************************)
(* Errbacks by result shape: rules whose errback returns None, a list, a   *)
(* generator or an asynchronous generator.                                 *)
(***************************************************************************)
UserErrbacks == {"parse_none", "on_error", "parse_generator", "parse_asyncgen"}

\* Rule(callback=f, follow=True, errback=e)
ErrbackRuleChoices ==
    { Rule(None, Func(f), None, Bool(TRUE), None, None, Func(e)) :
        f \in {"parse_item", "parse_asyncgen"}, e \in UserErrbacks }

ErrbackTables == SeqsUpTo(ErrbackRuleChoices, MaxRules) \ {<<>>}

InitErrback ==
    /\ rules \in ErrbackTables
    /\ _rules = _compile_rules(rules)
    /\ crawler \in Crawlers
    /\ _follow_links = from_crawler(crawler)
    /\ pending = {Request(start_url)}
    /\ gen = Idle
    /\ unhandled = {}
    /\ emitted = {}
    /\ gen2 = Idle
    /\ heap = <<>>
    /\ declarations = <<>>
    /\ compiled = [s \in Instances |-> <<>>]
    /\ overridden = FALSE
    /\ warnings = <<>>
    /\ last_call = NoCall

SpecErrback == InitErrback /\ [][NextUser]_vars

(***************************************************************************)
(* Callbacks whose result holds an element that is itself a list or a      *)
(* generator of items.                                                     *)
(***************************************************************************)
NestedCallbacks ==
    {"parse_item", "parse_nested", "parse_nested_generator", "parse_nested_asyncgen"}

\* Rule(callback=f, follow=True)
NestedRuleChoices ==
    { Rule(None, Func(f), None, Bool(TRUE), None, None, None) : f \in NestedCallbacks }

NestedTables == SeqsUpTo(NestedRuleChoices, MaxRules) \ {<<>>}

InitNested ==
    /\ rules \in NestedTables
    /\ _rules = _compile_rules(rules)
    /\ crawler \in Crawlers
    /\ _follow_links = from_crawler(crawler)
    /\ pending = {Request(start_url)}
    /\ gen = Idle
    /\ unhandled = {}
    /\ emitted = {}
    /\ gen2 = Idle
    /\ heap = <<>>
    /\ declarations = <<>>
    /\ compiled = [s \in Instances |-> <<>>]
    /\ overridden = FALSE
    /\ warnings = <<>>
    /\ last_call = NoCall

SpecNested == InitNested /\ [][NextUser]_vars

(***************************************************************************)
(* Two responses of one spider traversed concurrently: the start page in   *)
(* gen and the response of a rule's request in gen2, each generator        *)
(* resumed in any order.                                                   *)
(***************************************************************************)
\* Rule(link_extractor, callback="parse_item", follow=True, ...) for each
\* choice of extractor and filters
ConcurrentRuleChoices ==
    { Rule(e.link_extractor, Str("parse_item"), None, Bool(TRUE), e.process_links,
           e.process_request, None) : e \in ExtractionChoices }

ConcurrentTables == SeqsUpTo(ConcurrentRuleChoices, MaxRules) \ {<<>>}

\* The seen-set is one set of the spider, shared by its traversals
Locals_SharedSeen(g, other) == [g EXCEPT !.seen = @ \cup other.seen]

\* The local variables a generator resumes with are its own: seen is a
\* local of the _requests_to_follow call (line 139), out of reach of the
\* other traversal
Locals(g, other) == g

InitConcurrent ==
    /\ rules \in ConcurrentTables
    /\ _rules = _compile_rules(rules)
    /\ crawler = [CRAWLSPIDER_FOLLOW_LINKS |-> TRUE]
    /\ _follow_links = from_crawler(crawler)
    /\ gen = _parse(Request(start_url), ResponseFor(Request(start_url), "HtmlResponse"))
    /\ \E i \in 0..(Len(rules) - 1), k \in DOMAIN test_body, cls \in ResponseClasses :
          LET request == _build_request(i, test_body[k])
          IN gen2 = _callback(_rules, request, ResponseFor(request, cls))
    /\ pending = {}
    /\ unhandled = {}
    /\ emitted = {}
    /\ heap = <<>>
    /\ declarations = <<>>
    /\ compiled = [s \in Instances |-> <<>>]
    /\ overridden = FALSE
    /\ warnings = <<>>
    /\ last_call = NoCall

\* The first generator is asked for its next item
PullFirst ==
    /\ Suspended(gen)
    /\ gen' = Resume(_rules, _follow_links, Locals(gen, gen2))
    /\ UNCHANGED <<rules, _rules, _follow_links, pending, unhandled, crawler,
                   emitted, gen2, heap, declarations, compiled,
                   overridden, warnings, last_call>>

\* The second generator is asked for its next item
PullSecond ==
    /\ Suspended(gen2)
    /\ gen2' = Resume(_rules, _follow_links, Locals(gen2, gen))
    /\ UNCHANGED <<rules, _rules, _follow_links, pending, unhandled, crawler,
                   emitted, gen, heap, declarations, compiled,
                   overridden, warnings, last_call>>

NextConcurrent == PullFirst \/ PullSecond

SpecConcurrent == InitConcurrent /\ [][NextConcurrent]_vars

(***************************************************************************)
(* Rule objects by identity: the class body declares the rules, each       *)
(* spider instance compiles its own table from them, and user code changes *)
(* a compiled rule of instance A.  The heap is a sequence of objects; the  *)
(* identity of an object is its index.  Here rules holds the identities of *)
(* the declared rules, and a rule's cb_kwargs the identity of its dict.    *)
(***************************************************************************)
MaxChanges == 1     \* changes user code makes to the compiled rules of A

\* The Rule(...) calls a class body of the model may make
DeclarationChoices ==
    { [link_extractor |-> None, callback |-> None, cb_kwargs |-> None,
       follow |-> None, process_links |-> None, process_request |-> None,
       errback |-> None],
      [link_extractor |-> None, callback |-> Str("parse_item"), cb_kwargs |-> None,
       follow |-> None, process_links |-> None, process_request |-> None,
       errback |-> None],
      [link_extractor |-> None, callback |-> Func("parse_item"),
       cb_kwargs |-> Dict([page |-> "x"]), follow |-> Bool(TRUE),
       process_links |-> None, process_request |-> None,
       errback |-> Str("on_error")],
      [link_extractor |-> None, callback |-> None, cb_kwargs |-> None,
       follow |-> Bool(FALSE), process_links |-> None, process_request |-> None,
       errback |-> None],
      [link_extractor |-> LE("allow_item"), callback |-> Str("parse_item"),
       cb_kwargs |-> Dict([page |-> "x"]), follow |-> Bool(FALSE),
       process_links |-> Str("filter_process_links"),
       process_request |-> Str("process_request_drop"), errback |-> None],
      [link_extractor |-> None, callback |-> None, cb_kwargs |-> None,
       follow |-> Bool(TRUE), process_links |-> None, process_request |-> None,
       errback |-> None],
      [link_extractor |-> None, callback |-> Str("name"), cb_kwargs |-> None,
       follow |-> None, process_links |-> None, process_request |-> None,
       errback |-> None],
      [link_extractor |-> None, callback |-> Str("missing"), cb_kwargs |-> None,
       follow |-> None, process_links |-> Str("missing"),
       process_request |-> None, errback |-> Str("missing")] }

DeclarationTables == SeqsUpTo(DeclarationChoices, MaxRules) \ {<<>>}

\* Rule(...) with the arguments of one declaration
RuleOf(a) ==
    Rule(a.link_extractor, a.callback, a.cb_kwargs, a.follow, a.process_links,
         a.process_request, a.errback)

\* The class body: each Rule(...) call makes a dict object (cb_kwargs or {})
\* and the Rule object that refers to it
RECURSIVE DeclareInto(_, _, _)
DeclareInto(h, args, refs) ==
    IF args = <<>> THEN [heap |-> h, refs |-> refs]
    ELSE LET rule == RuleOf(Head(args))
             h1 == Append(h, [t |-> "dict", v |-> rule.cb_kwargs])
             h2 == Append(h1, [rule EXCEPT !.cb_kwargs = Len(h1)])
         IN DeclareInto(h2, Tail(args), Append(refs, Len(h2)))

\* The declared rule itself is compiled and put in the table
RECURSIVE CompileInto(_, _, _)
CompileInto_NoCopy(h, refs, table) ==
    IF refs = <<>> THEN [heap |-> h, table |-> table]
    ELSE LET id == Head(refs)
             h2 == [h EXCEPT ![id] = _compile(@)]
         IN CompileInto(h2, Tail(refs), Append(table, id))

\* CrawlSpider._compile_rules on objects: copy.copy(rule) makes a new Rule
\* object with the same attribute values (the same dict object as
\* cb_kwargs), and _compile rebinds the attributes of the copy
CompileInto(h, refs, table) ==
    IF refs = <<>> THEN [heap |-> h, table |-> table]
    ELSE LET h1 == Append(h, h[Head(refs)])
             id == Len(h1)
             h2 == [h1 EXCEPT ![id] = _compile(@)]
         IN CompileInto(h2, Tail(refs), Append(table, id))

\* A rule object as seen through a reference: its attributes, with the
\* content of its cb_kwargs dict
Seen(ref) == [heap[ref] EXCEPT !.cb_kwargs = heap[@].v]

SeenTable(refs) == [i \in DOMAIN refs |-> Seen(refs[i])]

\* The changes user code has made so far through the compiled rules of A
Rebound ==
    {<<i, f>> \in (DOMAIN compiled["A"]) \X {"callback", "process_links"} :
        heap[compiled["A"][i]][f] = Func("rebound")}

KeysSet ==
    {<<d, k>> \in (DOMAIN heap) \X {"page", "extra"} :
        /\ "t" \in DOMAIN heap[d]
        /\ k \in DOMAIN heap[d].v
        /\ heap[d].v[k] = "y"}

Changes == Cardinality(Rebound) + Cardinality(KeysSet)

InitObjects ==
    /\ declarations \in DeclarationTables
    /\ heap = <<>>
    /\ rules = <<>>
    /\ compiled = [s \in Instances |-> <<>>]
    /\ overridden = FALSE
    /\ warnings = <<>>
    /\ last_call = NoCall
    /\ _rules = <<>>
    /\ _follow_links = Unset
    /\ crawler = None
    /\ pending = {}
    /\ gen = Idle
    /\ gen2 = Idle
    /\ unhandled = {}
    /\ emitted = {}

\* The class body runs: rules = (Rule(...), ...)
DeclareRules ==
    /\ rules = <<>>
    /\ LET made == DeclareInto(heap, declarations, <<>>)
       IN heap' = made.heap /\ rules' = made.refs
    /\ UNCHANGED <<_rules, _follow_links, pending, gen, unhandled, crawler,
                   emitted, gen2, declarations, compiled,
                   overridden, warnings, last_call>>

\* CrawlSpider.__init__ of one instance: self._compile_rules()
Construct(s) ==
    /\ rules # <<>>
    /\ compiled[s] = <<>>
    /\ LET made == CompileInto(heap, rules, <<>>)
       IN /\ heap' = made.heap
          /\ compiled' = [compiled EXCEPT ![s] = made.table]
    /\ UNCHANGED <<rules, _rules, _follow_links, pending, gen, unhandled,
                   crawler, emitted, gen2, declarations,
                   overridden, warnings, last_call>>

\* User code rebinds an attribute of a compiled rule of A:
\* A._rules[i].callback = rebound
Rebind(i, f) ==
    /\ i \in DOMAIN compiled["A"]
    /\ Changes < MaxChanges
    /\ heap[compiled["A"][i]][f] # Func("rebound")
    /\ heap' = [heap EXCEPT ![compiled["A"][i]][f] = Func("rebound")]
    /\ UNCHANGED <<rules, _rules, _follow_links, pending, gen, unhandled,
                   crawler, emitted, gen2, declarations, compiled,
                   overridden, warnings, last_call>>

\* User code sets a key of the extra callback arguments of a compiled rule
\* of A: A._rules[i].cb_kwargs[k] = "y"
SetKwarg(i, k) ==
    /\ i \in DOMAIN compiled["A"]
    /\ Changes < MaxChanges
    /\ LET d == heap[compiled["A"][i]].cb_kwargs
       IN /\ <<d, k>> \notin KeysSet
          /\ heap' = [heap EXCEPT ![d].v = MergeKwargs(@, k :> "y")]
    /\ UNCHANGED <<rules, _rules, _follow_links, pending, gen, unhandled,
                   crawler, emitted, gen2, declarations, compiled,
                   overridden, warnings, last_call>>

NextObjects ==
    \/ DeclareRules
    \/ \E s \in Instances : Construct(s)
    \/ \E i \in 1..MaxRules, f \in {"callback", "process_links"} : Rebind(i, f)
    \/ \E i \in 1..MaxRules, k \in {"page", "extra"} : SetKwarg(i, k)

SpecObjects == InitObjects /\ [][NextObjects]_vars

(***************************************************************************)
(* Link filters and request filters as the tests declare them: by the name *)
(* of a method that returns a list or is a generator function, by a        *)
(* function, and by a name the spider does not have.                       *)
(***************************************************************************)
FilterChoices ==
    { [process_links |-> lf, process_request |-> None] :
        lf \in { None, Str("dummy_process_links"),
                 Str("dummy_process_links_generator"),
                 Str("filter_process_links"), Str("missing") } }
    \cup { [process_links |-> None, process_request |-> rf] :
             rf \in { Func("process_request_change_domain"),
                      Func("process_request_meta_response_class"),
                      Str("process_request_drop"), Str("missing") } }
    \cup { [process_links |-> Str("filter_process_links"),
            process_request |-> Func("process_request_change_domain")],
           [process_links |-> Str("dummy_process_links_generator"),
            process_request |-> Func("process_request_meta_response_class")] }

\* Rule(LinkExtractor(), process_links=..., process_request=...)
FilterRuleChoices ==
    { Rule(None, None, None, None, c.process_links, c.process_request, None) :
        c \in FilterChoices }

FilterTables == SeqsUpTo(FilterRuleChoices, MaxRules) \ {<<>>}

InitFilters ==
    /\ rules \in FilterTables
    /\ _rules = _compile_rules(rules)
    /\ crawler = [CRAWLSPIDER_FOLLOW_LINKS |-> TRUE]
    /\ _follow_links = from_crawler(crawler)
    /\ pending = {Request(start_url)}
    /\ gen = Idle
    /\ unhandled = {}
    /\ emitted = {}
    /\ gen2 = Idle
    /\ heap = <<>>
    /\ declarations = <<>>
    /\ compiled = [s \in Instances |-> <<>>]
    /\ overridden = FALSE
    /\ warnings = <<>>
    /\ last_call = NoCall

SpecFilters == InitFilters /\ [][Next]_vars

(***************************************************************************)
(* Callback arguments from two sides: rules that declare cb_kwargs or not, *)
(* and request filters that give the request cb_kwargs of its own, with    *)
(* the rule's key or with another.                                         *)
(***************************************************************************)
KwargsRuleChoices ==
    { Rule(None, Str("parse_item"), kw, Bool(TRUE), None, pr, None) :
        kw \in {None, Dict([page |-> "x"])},
        pr \in { None, Func("process_request_cb_kwargs_page"),
                 Func("process_request_cb_kwargs_extra") } }

KwargsTables == SeqsUpTo(KwargsRuleChoices, MaxRules) \ {<<>>}

InitKwargs ==
    /\ rules \in KwargsTables
    /\ _rules = _compile_rules(rules)
    /\ crawler = [CRAWLSPIDER_FOLLOW_LINKS |-> TRUE]
    /\ _follow_links = from_crawler(crawler)
    /\ pending = {Request(start_url)}
    /\ gen = Idle
    /\ unhandled = {}
    /\ emitted = {}
    /\ gen2 = Idle
    /\ heap = <<>>
    /\ declarations = <<>>
    /\ compiled = [s \in Instances |-> <<>>]
    /\ overridden = FALSE
    /\ warnings = <<>>
    /\ last_call = NoCall

SpecKwargs == InitKwargs /\ [][Next]_vars

(***************************************************************************)
(* The deprecated _parse_response: a spider class that overrides it or     *)
(* not, its constructor, and calls of _parse_response and parse_with_rules *)
(* made from outside, as the tests make them.                              *)
(***************************************************************************)
MaxWarnings == 2    \* warnings emitted before the calls that warn stop

\* The rule tables of the spider classes of this part: one rule, default
\* extractor and filters
DeprecatedTables ==
    { <<Rule(None, r.callback, r.cb_kwargs, r.follow, None, None, r.errback)>> :
        r \in RoutingChoices }

\* The arguments of a call from outside
CallArguments ==
    [ response : {ResponseFor(Request(start_url), cls) : cls \in ResponseClasses},
      callback : {None, Func("parse_item")},
      cb_kwargs : {NoKwargs, [page |-> "x"]},
      follow : BOOLEAN ]

\* The constructor warns whether or not the class overrides the method
init_warnings_Always(override) == <<[by |-> "__init__"]>>

\* CrawlSpider.__init__, lines 103-110: the warnings it emits
init_warnings(override) ==
    IF override THEN <<[by |-> "__init__"]>> ELSE <<>>

\* The follow argument is not passed on: parse_with_rules takes its default
_parse_response_DropsFollow(response, callback, cb_kwargs, follow) ==
    [ warned |-> <<[by |-> "_parse_response"]>>,
      value |-> parse_with_rules(None, response, callback, cb_kwargs, TRUE) ]

\* CrawlSpider._parse_response, as CrawlSpider defines it: the warning it
\* emits and the generator it returns
_parse_response(response, callback, cb_kwargs, follow) ==
    [ warned |-> <<[by |-> "_parse_response"]>>,
      value |-> parse_with_rules(None, response, callback, cb_kwargs, follow) ]

\* _parse_response as the class of test_parse_response_override defines it:
\* pass
_parse_response_override(response, callback, cb_kwargs, follow) ==
    [ warned |-> <<>>, value |-> None ]

InitDeprecated ==
    /\ rules \in DeprecatedTables
    /\ _rules = <<>>
    /\ overridden \in BOOLEAN
    /\ _follow_links \in {Bool(FALSE), Bool(TRUE)}
    /\ crawler = None
    /\ warnings = <<>>
    /\ last_call = NoCall
    /\ pending = {}
    /\ gen = Idle
    /\ unhandled = {}
    /\ emitted = {}
    /\ gen2 = Idle
    /\ heap = <<>>
    /\ declarations = <<>>
    /\ compiled = [s \in Instances |-> <<>>]

\* spider = _CrawlSpider()
ConstructSpider ==
    /\ last_call = NoCall
    /\ _rules' = _compile_rules(rules)
    /\ warnings' = warnings \o init_warnings(overridden)
    /\ last_call' = Call("__init__", None, None, NoKwargs, FALSE, Len(warnings), None)
    /\ UNCHANGED <<rules, _follow_links, pending, gen, unhandled, crawler, emitted,
                   gen2, heap, declarations, compiled, overridden>>

\* spider._parse_response(response, callback, cb_kwargs, follow)
CallParseResponse(a) ==
    /\ last_call # NoCall
    /\ gen.pc = "idle"
    /\ Len(warnings) < MaxWarnings
    /\ LET called == IF overridden
                     THEN _parse_response_override(a.response, a.callback,
                                                   a.cb_kwargs, a.follow)
                     ELSE _parse_response(a.response, a.callback, a.cb_kwargs,
                                          a.follow)
       IN /\ warnings' = warnings \o called.warned
          /\ gen' = IF called.value = None THEN gen ELSE called.value
          /\ last_call' = Call("_parse_response", a.response, a.callback,
                               a.cb_kwargs, a.follow, Len(warnings), called.value)
    /\ UNCHANGED <<rules, _rules, _follow_links, pending, unhandled, crawler,
                   emitted, gen2, heap, declarations, compiled, overridden>>

\* spider.parse_with_rules(response, callback, cb_kwargs, follow)
CallParseWithRulesOutside(a) ==
    /\ last_call # NoCall
    /\ gen.pc = "idle"
    /\ gen' = parse_with_rules(None, a.response, a.callback, a.cb_kwargs, a.follow)
    /\ last_call' = Call("parse_with_rules", a.response, a.callback, a.cb_kwargs,
                         a.follow, Len(warnings), gen')
    /\ UNCHANGED <<rules, _rules, _follow_links, pending, unhandled, crawler,
                   emitted, gen2, heap, declarations, compiled, overridden,
                   warnings>>

NextDeprecated ==
    \/ ConstructSpider
    \/ \E a \in CallArguments : CallParseResponse(a)
    \/ \E a \in CallArguments : CallParseWithRulesOutside(a)
    \/ Pull
    \/ Release

SpecDeprecated == InitDeprecated /\ [][NextDeprecated]_vars

(***************************************************************************)
(* What the properties below speak of.                                     *)
(***************************************************************************)
Range(seq) == {seq[k] : k \in DOMAIN seq}

Min(S) == CHOOSE m \in S : \A n \in S : m <= n

\* The calls of one kind the generator has made so far, in order
CallsOf(fn) == SelectSeq(gen.calls, LAMBDA c : c.fn = fn)

ExtractCalls == CallsOf("extract_links")
FilterCalls == CallsOf("process_links")
RequestCalls == CallsOf("process_request")
CallbackCalls == CallsOf("callback")

\* The rules whose extractor matched the link, whose link filter returned it
MatchedBy(u) == {c.rule : c \in {x \in Range(ExtractCalls) : u \in Range(x.ret)}}
KeptBy(u) == {c.rule : c \in {x \in Range(FilterCalls) : u \in Range(x.ret)}}

\* The turns of the inner loop that built a request from the link, and
\* those among them that yielded a request
BuiltFrom(u) == {k \in DOMAIN RequestCalls : RequestCalls[k].link.url = u.url}
EmittedFrom(u) == {k \in BuiltFrom(u) : IsRequest(RequestCalls[k].ret)}

PageLinks == Range(test_body)

Traversal == gen.fn = "parse_with_rules" /\ gen.pc # "raised"

(***************************************************************************)
(* C1 as the spec states it: in one traversal, a URL matched by the        *)
(* extractors of one or more rules yields at most one follow request, and  *)
(* that request is built with the lowest index among the rules whose       *)
(* extractor matched it.                                                   *)
(***************************************************************************)
C1_LowestMatchingRule ==
    \A u \in PageLinks :
        /\ Cardinality(EmittedFrom(u)) <= 1
        /\ \A k \in EmittedFrom(u) : RequestCalls[k].rule = Min(MatchedBy(u))

(***************************************************************************)
(* C1, amended: with link filters that return a sub-list of their argument *)
(* and extractors that return a link once, a URL matched by one or more    *)
(* rules has at most one request built from it, by the lowest-indexed rule *)
(* whose link filter returned it (a link an earlier rule's extractor       *)
(* matched and its link filter dropped is left to a later rule); once the  *)
(* traversal has ended, every link some link filter returned has had its   *)
(* request built.                                                          *)
(***************************************************************************)
C1_LowestKeepingRule ==
    \A u \in PageLinks :
        /\ Cardinality(BuiltFrom(u)) <= 1
        /\ \A k \in BuiltFrom(u) :
              /\ KeptBy(u) # {}
              /\ RequestCalls[k].rule = Min(KeptBy(u))
              /\ RequestCalls[k].arg.meta.rule = Min(KeptBy(u))
              /\ RequestCalls[k].rule >= Min(MatchedBy(u))
        /\ gen.pc = "closed" /\ KeptBy(u) # {} => BuiltFrom(u) # {}

\* A traversal has ended in which two rules matched a link and one request
\* was emitted for it, by the first of them
C1_Witness ==
    /\ gen.pc = "closed"
    /\ \E u \in PageLinks :
          /\ MatchedBy(u) = {0, 1}
          /\ \E k \in EmittedFrom(u) : RequestCalls[k].rule = 0

(***************************************************************************)
(* C2: a response delivered to _callback is traversed with the compiled    *)
(* callback, the extra callback arguments and the follow flag of the rule  *)
(* in whose turn its request was yielded, whatever was processed between   *)
(* the request and its response.                                           *)
(***************************************************************************)
EmittersOf(r) == {e.rule : e \in {x \in emitted : x.request = r}}

FromCallback ==
    /\ gen.fn = "parse_with_rules"
    /\ gen.request # None
    /\ gen.request.callback = "_callback"

C2_RuleIdentityCarried ==
    FromCallback =>
        /\ EmittersOf(gen.request) # {}
        /\ \A i \in EmittersOf(gen.request) :
              /\ gen.callback = _rules[i + 1].callback
              /\ gen.cb_kwargs = _rules[i + 1].cb_kwargs
              /\ gen.follow = _rules[i + 1].follow
              /\ \A c \in Range(CallbackCalls) :
                    /\ c.f = _rules[i + 1].callback
                    /\ c.cb_kwargs = _rules[i + 1].cb_kwargs
              /\ ExtractCalls # <<>> => _rules[i + 1].follow

\* The response of a request of the second rule is being traversed, with the
\* second rule's callback called, while the two rules differ in callback
\* and follow flag and another request is still in flight
C2_Witness ==
    /\ FromCallback
    /\ EmittersOf(gen.request) = {1}
    /\ CallbackCalls # <<>>
    /\ _rules[1].callback # _rules[2].callback
    /\ _rules[1].follow # _rules[2].follow
    /\ pending # {}

(***************************************************************************)
(* C3: what a traversal has emitted is, at every moment, some first items  *)
(* of the callback's output followed by the results of the follow turns    *)
(* made so far, and no extractor has been called before the callback's     *)
(* last item was emitted: callback items [a, b] and follow links [c, d]    *)
(* give [a, b, c, d].                                                      *)
(***************************************************************************)
CallbackOutput == IF CallbackCalls = <<>> THEN <<>> ELSE CallbackCalls[1].ret

RECURSIVE Returns(_)
Returns(calls) ==
    IF calls = <<>> THEN <<>> ELSE <<Head(calls).ret>> \o Returns(Tail(calls))

FollowOutput == Returns(RequestCalls)

C3_CallbackOutputFirst ==
    Traversal =>
        /\ \E n \in 0..Len(CallbackOutput) :
              /\ gen.out = SubSeq(CallbackOutput, 1, n) \o FollowOutput
              /\ ExtractCalls # <<>> => n = Len(CallbackOutput)
        /\ gen.pc = "closed" => gen.out = CallbackOutput \o FollowOutput

\* A traversal has ended whose callback gave two items and whose follow
\* step gave at least two requests
C3_Witness ==
    /\ Traversal
    /\ gen.pc = "closed"
    /\ CallbackOutput = <<Item("a"), Item("b")>>
    /\ Len(FollowOutput) >= 2
    /\ \A k \in DOMAIN FollowOutput : IsRequest(FollowOutput[k])

(***************************************************************************)
(* C4 as the spec states it: when a request filter returns null for a      *)
(* link, the traversal emits nothing for that link: no element of its      *)
(* output is null.                                                         *)
(***************************************************************************)
C4_NoNullEmitted == \A k \in DOMAIN gen.out : gen.out[k] # None

(***************************************************************************)
(* C4, amended: when a request filter returns null for a link, no request  *)
(* is emitted for that link and no error is raised; the null itself is     *)
(* yielded in the place of the request, the engine schedules nothing for   *)
(* it, and the turns of the other links are still made.                    *)
(***************************************************************************)
C4_NullYieldedInPlace ==
    /\ None \notin pending
    /\ gen.fn = "parse_with_rules" /\ RequestCalls # <<>> => gen.pc # "raised"
    /\ \A k \in DOMAIN RequestCalls :
          RequestCalls[k].ret = None =>
              /\ EmittedFrom(RequestCalls[k].link) = {}
              /\ gen.out[Len(gen.out) - Len(RequestCalls) + k] = None
    /\ gen.pc = "closed" =>
          \A c \in Range(FilterCalls) : \A l \in Range(c.ret) :
              \E k \in DOMAIN RequestCalls :
                  /\ RequestCalls[k].rule = c.rule
                  /\ RequestCalls[k].link = l
                  /\ gen.out[Len(gen.out) - Len(RequestCalls) + k] = RequestCalls[k].ret

\* A traversal has ended in which a request filter returned null for one
\* link, between two links whose requests were emitted
C4_Witness ==
    /\ gen.pc = "closed"
    /\ \E j, k, l \in DOMAIN RequestCalls :
          /\ j < k /\ k < l
          /\ RequestCalls[k].ret = None
          /\ IsRequest(RequestCalls[j].ret) /\ IsRequest(RequestCalls[l].ret)
          /\ RequestCalls[j].rule = RequestCalls[k].rule
          /\ RequestCalls[l].rule = RequestCalls[k].rule

(***************************************************************************)
(* C5 as the spec states it: every emitted request routed to _callback or  *)
(* _errback carries a rule index within the rule table, and the rule       *)
(* lookup never fails, whatever the request filter did.                    *)
(***************************************************************************)
Routed(r) == r.callback = "_callback" \/ r.errback = "_errback"

ValidIndex(r) ==
    /\ "rule" \in DOMAIN r.meta
    /\ r.meta.rule \in 0..(Len(_rules) - 1)

EmittedRequests == pending \cup {e.request : e \in emitted}

C5_IndexAlwaysValid ==
    /\ \A r \in EmittedRequests : Routed(r) => ValidIndex(r)
    /\ gen.error \notin {"KeyError", "IndexError"}

(***************************************************************************)
(* C5, amended: every request _build_request builds carries the index of   *)
(* the rule in whose turn it is built, within the rule table; an emitted   *)
(* request that still carries a rule index carries that valid one, and the *)
(* lookup for it does not fail; a request whose filter replaced the        *)
(* metadata carries no index, and only for such a request does the lookup  *)
(* fail (KeyError).                                                        *)
(***************************************************************************)
C5_IndexValidUnlessReplaced ==
    /\ \A k \in DOMAIN RequestCalls :
          /\ ValidIndex(RequestCalls[k].arg)
          /\ RequestCalls[k].arg.meta.rule = RequestCalls[k].rule
    /\ \A e \in emitted :
          "rule" \in DOMAIN e.request.meta =>
              ValidIndex(e.request) /\ e.request.meta.rule = e.rule
    /\ \A r \in pending : Routed(r) /\ "rule" \in DOMAIN r.meta => ValidIndex(r)
    /\ gen.error # "IndexError"
    /\ gen.error = "KeyError" => "rule" \notin DOMAIN gen.request.meta

\* The response of a request of the last rule of a table of two or more,
\* whose URL the request filter rewrote, has been routed by _callback
C5_Witness ==
    /\ FromCallback
    /\ gen.pc = "created"
    /\ Len(_rules) >= 2
    /\ gen.request.meta.rule = Len(_rules) - 1
    /\ gen.request.url.domain = "com"

(***************************************************************************)
(* C6: for a failed fetch of a request of rule i, only rule i's errback is *)
(* called, if it is bound, and never its callback; no extractor or filter  *)
(* is called and what is emitted is the errback's output, with no follow   *)
(* request, whatever rule i's follow flag.                                 *)
(***************************************************************************)
FailureHandled ==
    /\ gen.pc \notin {"idle", "raised"}
    /\ gen.request # None
    /\ gen.response.cls = "Failure"

OriginRule == _rules[gen.request.meta.rule + 1]

C6_FailureToErrbackOnly ==
    FailureHandled =>
        /\ gen.fn = "_handle_failure"
        /\ gen.callback = OriginRule.errback
        /\ \A c \in Range(gen.calls) :
              /\ c.fn = "callback"
              /\ c.f = OriginRule.errback
              /\ c.f # OriginRule.callback
        /\ Len(gen.calls) = IF truthy(OriginRule.errback) /\ gen.pc # "created"
                            THEN 1 ELSE 0
        /\ \A k \in DOMAIN gen.out : ~IsRequest(gen.out[k])
        /\ gen.pc = "closed" =>
              gen.out = IF truthy(OriginRule.errback)
                        THEN UserOutput(OriginRule.errback) ELSE <<>>

\* The failure of a request of a rule with callback, errback and follow set
\* has been handled: the errback was called and its item emitted
C6_Witness ==
    /\ FailureHandled
    /\ gen.pc = "closed"
    /\ OriginRule.follow
    /\ truthy(OriginRule.callback)
    /\ CallbackCalls # <<>>
    /\ gen.out = <<Item("e")>>

(***************************************************************************)
(* C7: when the fetch of a request fails and the originating rule has no   *)
(* errback bound, the failure is not handled: the request is among those   *)
(* whose failure is left to the fetch engine, and no generator ends        *)
(* normally with an empty output for it.                                   *)
(***************************************************************************)
C7_UnboundErrbackPropagates ==
    FailureHandled /\ ~truthy(OriginRule.errback) =>
        /\ gen.request \in unhandled
        /\ gen.pc # "closed"

(***************************************************************************)
(* C8: a spider built by from_crawler has the CRAWLSPIDER_FOLLOW_LINKS     *)
(* setting as its _follow_links; when it is false, a traversal calls no    *)
(* extractor or filter and emits no follow request, while the bound        *)
(* callback is called and its output emitted.                              *)
(***************************************************************************)
C8_FollowLinksSetting ==
    crawler # None =>
        /\ _follow_links = Bool(crawler.CRAWLSPIDER_FOLLOW_LINKS)
        /\ ~crawler.CRAWLSPIDER_FOLLOW_LINKS /\ gen.fn = "parse_with_rules" =>
              /\ gen.pc # "raised"
              /\ ExtractCalls = <<>> /\ FilterCalls = <<>> /\ RequestCalls = <<>>
              /\ truthy(gen.callback) /\ gen.pc # "created" =>
                    /\ Len(CallbackCalls) = 1
                    /\ CallbackCalls[1].f = gen.callback
              /\ gen.pc = "closed" =>
                    gen.out = IF truthy(gen.callback)
                              THEN UserOutput(gen.callback) ELSE <<>>

\* With the setting false, a traversal of an HTML response with the callback
\* of a rule and follow set has ended with the callback's two items and
\* nothing else
C8_Witness ==
    /\ crawler # None
    /\ ~crawler.CRAWLSPIDER_FOLLOW_LINKS
    /\ gen.fn = "parse_with_rules"
    /\ gen.pc = "closed"
    /\ gen.follow
    /\ gen.response.cls = "HtmlResponse"
    /\ gen.out = <<Item("a"), Item("b")>>

(***************************************************************************)
(* C9 as the spec states it: on a response delivered to _callback, the     *)
(* follow flag of the originating rule and the instance-wide flag alone    *)
(* decide whether the rules are applied: all of them when both are set,    *)
(* none otherwise.                                                         *)
(***************************************************************************)
AppliedRules == {c.rule : c \in Range(ExtractCalls)}

AllRules == 0..(Len(_rules) - 1)

Ended == gen.pc \in {"closed", "raised"}

C9_FlagsAloneDecide ==
    FromCallback /\ Ended =>
        IF OriginRule.follow /\ _follow_links = Bool(TRUE)
        THEN AppliedRules = AllRules
        ELSE AppliedRules = {}

(***************************************************************************)
(* C9, amended: on an HTML response delivered to _callback, the rules are  *)
(* applied exactly when the originating rule's follow flag and the         *)
(* instance-wide flag are both true; then the extractor and the link       *)
(* filter of every rule of the table are called once, in table order,      *)
(* rules whose own follow flag is false included; otherwise, and on every  *)
(* response that is not HTML, no extractor or filter of any rule is        *)
(* called, rules whose own follow flag is true included.                   *)
(***************************************************************************)
C9_OriginFlagOnHtml ==
    FromCallback =>
        LET runs == /\ OriginRule.follow
                    /\ _follow_links = Bool(TRUE)
                    /\ gen.response.cls = "HtmlResponse"
        IN /\ ~runs => ExtractCalls = <<>> /\ FilterCalls = <<>> /\ RequestCalls = <<>>
           /\ runs /\ Ended =>
                 /\ gen.pc = "closed"
                 /\ Len(ExtractCalls) = Len(_rules)
                 /\ Len(FilterCalls) = Len(_rules)
                 /\ \A i \in AllRules :
                       /\ ExtractCalls[i + 1].rule = i
                       /\ FilterCalls[i + 1].rule = i

\* The traversal of an HTML response of a rule with follow set has ended,
\* and a rule whose own follow flag is false emitted a request in it
C9_Witness ==
    /\ FromCallback
    /\ gen.pc = "closed"
    /\ OriginRule.follow
    /\ \E k \in DOMAIN RequestCalls :
          /\ ~_rules[RequestCalls[k].rule + 1].follow
          /\ IsRequest(RequestCalls[k].ret)

(***************************************************************************)
(* C10 as the spec states it: a rule whose follow flag is false            *)
(* contributes no follow request in any traversal.                         *)
(***************************************************************************)
C10_NoFollowRuleEmitsNothing ==
    \A k \in DOMAIN RequestCalls :
        IsRequest(RequestCalls[k].ret) => _rules[RequestCalls[k].rule + 1].follow

(***************************************************************************)
(* C10, amended: the response of a request of a rule whose follow flag is  *)
(* false yields no follow request, whatever the extractors would match on  *)
(* it; in a traversal where the rules are applied, a rule whose follow     *)
(* flag is false has a request built for every link its link filter        *)
(* returns, like any other rule.                                           *)
(***************************************************************************)
C10_NoFollowOnOwnResponses ==
    /\ FromCallback /\ ~OriginRule.follow =>
          /\ gen.pc # "raised"
          /\ gen.calls = CallbackCalls
          /\ \A k \in DOMAIN gen.out : ~IsRequest(gen.out[k])
    /\ gen.pc = "closed" =>
          \A c \in Range(FilterCalls) :
              ~_rules[c.rule + 1].follow =>
                  \A l \in Range(c.ret) :
                      \E k \in DOMAIN RequestCalls :
                          RequestCalls[k].rule = c.rule /\ RequestCalls[k].link = l

\* The traversal of an HTML response of a rule with follow false, in a
\* table whose first rule matches every link, has ended with no request
C10_Witness ==
    /\ FromCallback
    /\ ~OriginRule.follow
    /\ gen.pc = "closed"
    /\ gen.response.cls = "HtmlResponse"
    /\ _follow_links = Bool(TRUE)
    /\ _rules[1].link_extractor = "default"
    /\ _rules[1].process_links = Func("_identity")
    /\ gen.out = CallbackOutput

(***************************************************************************)
(* C11: a declared rule with follow unset has follow true when no callback *)
(* is given and false when one is given; with follow given, the rule's     *)
(* follow is the given value, with or without a callback.                  *)
(***************************************************************************)
Declared(i) == heap[rules[i]]

C11_FollowDefault ==
    \A i \in DOMAIN rules :
        LET a == declarations[i]
        IN /\ a.follow = None /\ a.callback = None => Declared(i).follow = TRUE
           /\ a.follow = None /\ a.callback # None => Declared(i).follow = FALSE
           /\ a.follow # None => Declared(i).follow = a.follow.v

\* The rules are declared, among them one with a callback and follow unset
\* and one with a callback and follow given as true
C11_Witness ==
    /\ \E i \in DOMAIN rules :
          /\ declarations[i].follow = None
          /\ declarations[i].callback # None
          /\ ~Declared(i).follow
    /\ \E i \in DOMAIN rules :
          /\ declarations[i].follow = Bool(TRUE)
          /\ declarations[i].callback # None
          /\ Declared(i).follow

(***************************************************************************)
(* C12: on a response that is not an HTML response, whatever the rule      *)
(* table, no link extractor, link filter or request filter is called and   *)
(* no follow request is emitted: the traversal emits the callback's output *)
(* and ends.                                                               *)
(***************************************************************************)
C12_NonHtmlYieldsNothing ==
    gen.fn = "parse_with_rules" /\ gen.response.cls # "HtmlResponse" =>
        /\ ExtractCalls = <<>> /\ FilterCalls = <<>> /\ RequestCalls = <<>>
        /\ gen.pc # "yield_follow"
        /\ \A k \in DOMAIN gen.out : ~IsRequest(gen.out[k])
        /\ gen.pc = "closed" => gen.out = CallbackOutput

\* The traversal of a response that is not HTML has ended, with follow set,
\* the instance following links and a first rule that matches every link
C12_Witness ==
    /\ gen.fn = "parse_with_rules"
    /\ gen.response.cls = "TextResponse"
    /\ gen.pc = "closed"
    /\ gen.follow
    /\ _follow_links = Bool(TRUE)
    /\ _rules[1].link_extractor = "default"
    /\ _rules[1].process_links = Func("_identity")

Resolvable == {"callback", "errback", "process_links", "process_request"}

C18_DeclaredUnchanged ==
    \A i \in DOMAIN rules : \A f \in Resolvable :
        /\ Declared(i)[f] = RuleOf(declarations[i])[f]
        /\ declarations[i][f].t = "str" => Declared(i)[f] = declarations[i][f]

\* Both instances are constructed; a callback declared by name is a method
\* in the compiled rule of each and still the name in the declared rule
C18_Witness ==
    /\ compiled["A"] # <<>> /\ compiled["B"] # <<>>
    /\ \E i \in DOMAIN rules :
          /\ declarations[i].callback = Str("parse_item")
          /\ heap[compiled["A"][i]].callback = Func("parse_item")
          /\ heap[compiled["B"][i]].callback = Func("parse_item")
          /\ Declared(i).callback = Str("parse_item")
          /\ compiled["A"][i] # rules[i]

(***************************************************************************)
(* C19: after the declared rules are compiled for instances A and B, a     *)
(* change made through a compiled rule of A (an attribute rebound, a key   *)
(* of its cb_kwargs set) is seen neither through the compiled rules of B   *)
(* nor through the declared rules: these stay as compiled and as declared. *)
(***************************************************************************)
AsDeclared == [i \in DOMAIN declarations |-> RuleOf(declarations[i])]

C19_NoSharedState ==
    /\ rules # <<>> => SeenTable(rules) = AsDeclared
    /\ compiled["B"] # <<>> => SeenTable(compiled["B"]) = _compile_rules(AsDeclared)

(***************************************************************************)
(* C20: in every compiled rule follow is a boolean, and the callback, the  *)
(* errback, the link filter and the request filter are each a callable or  *)
(* absent, whatever the spider has under the declared names.               *)
(***************************************************************************)
C20_CallableOrAbsent ==
    \A s \in Instances : \A i \in DOMAIN compiled[s] :
        LET rule == heap[compiled[s][i]]
        IN /\ rule.follow \in BOOLEAN
           /\ \A f \in Resolvable : callable(rule[f]) \/ rule[f] = None

(***************************************************************************)
(* C13: for a callback that returns a list or a generator, a coroutine     *)
(* resolving to a list, or an asynchronous generator, with finitely many   *)
(* items and no error, the traversal emits exactly those items, once each, *)
(* in their order, before anything else; None and the empty list give no   *)
(* item.                                                                   *)
(***************************************************************************)
CallbackResult == CallbackCalls[1].res

Sequential ==
    /\ Traversal
    /\ CallbackCalls # <<>>
    /\ CallbackResult.shape \in {"None", "list", "generator", "coroutine", "asyncgen"}
    /\ CallbackResult.end = "stop"

C13_ResultShapesEmitted ==
    Sequential =>
        LET items == CallbackResult.items
        IN /\ Len(CallbackCalls) = 1
           /\ \E n \in 0..Len(items) :
                 /\ gen.out = SubSeq(items, 1, n) \o FollowOutput
                 /\ FollowOutput # <<>> \/ gen.pc = "closed" => n = Len(items)
                 /\ gen.pc = "await" => n = 0
           /\ CallbackResult.shape = "None" => items = <<>>

\* With an asynchronous generator of two items as the callback's result,
\* the traversal has emitted the two items and then a follow request
C13_Witness ==
    /\ Sequential
    /\ CallbackResult.shape = "asyncgen"
    /\ Len(gen.out) = 3
    /\ gen.out[1] = Item("a") /\ gen.out[2] = Item("b")
    /\ IsRequest(gen.out[3])

(***************************************************************************)
(* C14: at every point of a traversal, the items taken from the callback's *)
(* result, a generator or an asynchronous generator, with or without an    *)
(* end, are at most one more than the items the consumer has asked for.    *)
(***************************************************************************)
C14_PulledWithinDemand ==
    gen.fn = "parse_with_rules" => gen.pulled <= gen.demanded + 1

(***************************************************************************)
(* C15: when a callback, a link filter or a request filter raises, or the  *)
(* callback's result raises while it is drained, the traversal ends with   *)
(* that error for its consumer, never normally; what was emitted before    *)
(* the error stays emitted, nothing is emitted after it, and no callback   *)
(* or filter is called twice for the same response, rule and link.         *)
(***************************************************************************)
RaisedAtCall == {k \in DOMAIN gen.calls : "raises" \in DOMAIN gen.calls[k]}

CallbackRaises ==
    /\ CallbackCalls # <<>>
    /\ CallbackResult.shape = "raise" \/ CallbackResult.end = "raise"

C15_UserErrorsPropagate ==
    gen.fn = "parse_with_rules" =>
        /\ RaisedAtCall # {} =>
              /\ gen.pc = "raised" /\ gen.error = "UserError"
              /\ RaisedAtCall = {Len(gen.calls)}
        /\ CallbackRaises =>
              /\ gen.pc # "closed"
              /\ gen.calls = CallbackCalls
              /\ gen.pc = "raised" =>
                    /\ gen.error = "UserError"
                    /\ gen.out = IF CallbackResult.shape = "generator"
                                 THEN CallbackResult.items ELSE <<>>
        /\ gen.error = "UserError" =>
              gen.pc = "raised" /\ (RaisedAtCall # {} \/ CallbackRaises)
        /\ Len(CallbackCalls) <= 1
        /\ \A j, k \in DOMAIN gen.calls :
              /\ j # k
              /\ gen.calls[j].fn = gen.calls[k].fn
              /\ gen.calls[j].fn # "callback"
              /\ gen.calls[j].rule = gen.calls[k].rule
              => /\ gen.calls[j].fn = "process_request"
                 /\ gen.calls[j].link # gen.calls[k].link

\* The traversal of a rule's response has ended with the error its
\* callback's generator raised after its first item, that item emitted
C15_Witness ==
    /\ FromCallback
    /\ gen.pc = "raised"
    /\ gen.error = "UserError"
    /\ CallbackResult.shape = "generator"
    /\ gen.out = <<Item("a")>>

(***************************************************************************)
(* C16: with two responses of one spider traversed concurrently, their     *)
(* steps interleaved in any order, what each traversal has emitted is at   *)
(* every moment the beginning of what it emits when traversed alone, and   *)
(* all of it once it has ended.                                            *)
(***************************************************************************)
\* The generator as it was created, and as it ends when drained alone
Fresh(g) == parse_with_rules(g.request, g.response, g.callback, g.cb_kwargs, g.follow)

RECURSIVE Alone(_)
Alone(g) ==
    IF Suspended(g) THEN Alone(Resume(_rules, _follow_links, g)) ELSE g

IsPrefix(a, b) == Len(a) <= Len(b) /\ a = SubSeq(b, 1, Len(a))

C21_CompileResolves ==
    \A s \in Instances : \A i \in DOMAIN compiled[s] : \A f \in Resolvable :
        s = "B" \/ <<i, f>> \notin Rebound =>
            LET given == Declared(i)[f]
                got == heap[compiled[s][i]][f]
            IN /\ DOMAIN heap[compiled[s][i]] = DOMAIN Declared(i)
               /\ callable(given) => got = given
               /\ given.t = "str" /\ given.v \in SpiderMethods => got = Func(given.v)
               /\ given.t = "str" /\ given.v \in SpiderAttributes => got = Str("test")
               /\ given.t = "str" /\ given.v \notin SpiderMethods \cup SpiderAttributes
                     => got = None
               /\ given = None => got = None

\* An instance is constructed from rules that declare a callback as a
\* function, an errback by the name of a method, a link filter by a name the
\* spider does not have, and no errback
C21_Witness ==
    /\ compiled["B"] # <<>>
    /\ \E i, j \in DOMAIN compiled["B"] :
          /\ Declared(i).callback = Func("parse_item")
          /\ heap[compiled["B"][i]].callback = Func("parse_item")
          /\ Declared(i).errback = Str("on_error")
          /\ heap[compiled["B"][i]].errback = Func("on_error")
          /\ Declared(j).process_links = Str("missing")
          /\ heap[compiled["B"][j]].process_links = None
          /\ Declared(j).process_request = Func("_identity_process_request")
          /\ heap[compiled["B"][j]].process_request = Func("_identity_process_request")

(***************************************************************************)
(* C22: with a table of one rule and an HTML response, the follow requests *)
(* emitted are the results of the request filter, called with the          *)
(* traversed response as its second argument, for the request built from   *)
(* each link the link filter returned, in the order it returned them; with *)
(* the default filters that is one request per extracted link, in the      *)
(* extractor's order; a link filter that is a generator function gives the *)
(* same sequence as one that returns the list.                             *)
(***************************************************************************)
RECURSIVE AloneIn(_, _)
AloneIn(table, g) ==
    IF Suspended(g) THEN AloneIn(table, Resume(table, _follow_links, g)) ELSE g

\* The rule with its generator link filter replaced by the one that returns
\* the list
AsList(rule) ==
    IF rule.process_links = Func("dummy_process_links_generator")
    THEN [rule EXCEPT !.process_links = Func("dummy_process_links")]
    ELSE rule

Paths(seq) == [k \in DOMAIN seq |-> seq[k].url.path]

SingleRule ==
    /\ Traversal
    /\ Len(_rules) = 1
    /\ callable(_rules[1].process_links)
    /\ callable(_rules[1].process_request)
    /\ FilterCalls # <<>>

C22_SingleRuleSequence ==
    SingleRule =>
        LET rule == _rules[1]
            extracted == ExtractCalls[1].ret
            kept == FilterCalls[1].ret
            expected == [k \in DOMAIN kept |->
                            call_process_request(rule.process_request,
                                                 _build_request(0, kept[k]),
                                                 gen.response)]
        IN /\ gen.response.cls = "HtmlResponse"
           /\ Len(FilterCalls) = 1
           /\ gen.out = CallbackOutput \o FollowOutput
           /\ IsPrefix(FollowOutput, expected)
           /\ gen.pc = "closed" => FollowOutput = expected
           /\ \A k \in DOMAIN RequestCalls :
                 /\ RequestCalls[k].response = gen.response
                 /\ RequestCalls[k].arg = _build_request(0, kept[k])
                 /\ rule.process_request = Func("process_request_meta_response_class")
                       => RequestCalls[k].ret.meta.response_class = "HtmlResponse"
                 /\ rule.process_request = Func("process_request_change_domain")
                       => RequestCalls[k].ret.url = Url("com", kept[k].url.path)
           /\ rule.process_links \in {Func("_identity"), Func("dummy_process_links"),
                                      Func("dummy_process_links_generator")}
                 => kept = extracted
           /\ rule.process_links = Func("filter_process_links")
                 => Paths(kept) = <<"item", "about">>
           /\ /\ rule.process_links = Func("_identity")
              /\ rule.process_request = Func("_identity_process_request")
              /\ gen.pc = "closed"
              => FollowOutput = [k \in DOMAIN extracted |->
                                    _build_request(0, extracted[k])]
           /\ gen.pc = "closed" =>
                 gen.out = AloneIn(<<AsList(rule)>>, Fresh(gen)).out

\* With one rule whose link filter is a generator function and whose request
\* filter records the class of the response, the traversal of the start page
\* has ended with a request for each of the three links
C22_Witness ==
    /\ SingleRule
    /\ gen.pc = "closed"
    /\ _rules[1].process_links = Func("dummy_process_links_generator")
    /\ _rules[1].process_request = Func("process_request_meta_response_class")
    /\ Paths(gen.out) = <<"item", "about", "nofollow">>
    /\ \A k \in DOMAIN gen.out : gen.out[k].meta.response_class = "HtmlResponse"

(***************************************************************************)
(* C23: constructing the spider emits one warning when its class overrides *)
(* _parse_response and none otherwise; a call of _parse_response as        *)
(* CrawlSpider defines it emits exactly one warning and returns what       *)
(* parse_with_rules returns for the same arguments; a call of              *)
(* parse_with_rules, and a call of an overriding _parse_response, emit     *)
(* none; nothing else emits a warning.                                     *)
(***************************************************************************)
WarnedSince == Len(warnings) - last_call.before

C23_DeprecationWarnings ==
    /\ last_call.fn = "" => warnings = <<>>
    /\ last_call.fn = "__init__" => WarnedSince = IF overridden THEN 1 ELSE 0
    /\ last_call.fn = "_parse_response" /\ ~overridden =>
          /\ WarnedSince = 1
          /\ last_call.value = parse_with_rules(None, last_call.response,
                                                last_call.callback,
                                                last_call.cb_kwargs,
                                                last_call.follow)
    /\ last_call.fn = "_parse_response" /\ overridden => WarnedSince = 0
    /\ last_call.fn = "parse_with_rules" => WarnedSince = 0
    /\ last_call.fn # "" /\ overridden => warnings = <<[by |-> "__init__"]>>
    /\ \A k \in DOMAIN warnings :
          warnings[k].by = "__init__" => k = 1 /\ overridden

\* A spider whose class does not override _parse_response was constructed
\* without a warning, _parse_response was called on it with follow false,
\* and the generator it returned has been drained: one warning in all
C23_Witness ==
    /\ ~overridden
    /\ last_call.fn = "_parse_response"
    /\ ~last_call.follow
    /\ warnings = <<[by |-> "_parse_response"]>>
    /\ gen.pc = "closed"
    /\ gen.out = <<Item("a"), Item("b")>>

(***************************************************************************)
(* C24 as the spec states it: a response whose metadata carries no rule    *)
(* index is treated as a start-page response: routing it raises nothing,   *)
(* its callback is parse_start_url, follow is on, and the follow step runs *)
(* on every such response.                                                 *)
(***************************************************************************)
Answered ==
    /\ gen.pc # "idle"
    /\ gen.request # None
    /\ gen.response.cls # "Failure"

NoRuleIndex == "rule" \notin DOMAIN gen.response.meta

FromParse ==
    /\ Answered
    /\ gen.request.callback = "_parse"

SeenAtStart(i) == {c.link : c \in {x \in Range(RequestCalls) : x.rule < i}}

C25_FilterSeesRemaining ==
    gen.fn = "parse_with_rules" =>
        /\ \A j, k \in DOMAIN FilterCalls :
              j # k => FilterCalls[j].rule # FilterCalls[k].rule
        /\ gen.pc = "closed" /\ ExtractCalls # <<>> =>
              /\ gen.response.cls = "HtmlResponse"
              /\ \A i \in AllRules :
                    Cardinality({k \in DOMAIN FilterCalls : FilterCalls[k].rule = i}) = 1
        /\ \A k \in DOMAIN FilterCalls :
              LET i == FilterCalls[k].rule
                  extracted == extract_links(_rules[i + 1].link_extractor,
                                             gen.response)
              IN /\ ExtractCalls[k].rule = i
                 /\ ExtractCalls[k].ret = extracted
                 /\ FilterCalls[k].arg =
                       SelectSeq(extracted, LAMBDA l : l \notin SeenAtStart(i))
                 /\ \A l \in Range(FilterCalls[k].arg) :
                       \A c \in Range(RequestCalls) : c.rule < i => c.link # l

\* The second rule's link filter was called with the one link the first
\* rule's link filter had dropped, out of the three its extractor returned
C25_Witness ==
    /\ gen.fn = "parse_with_rules"
    /\ gen.pc = "closed"
    /\ Len(FilterCalls) = 2
    /\ Len(ExtractCalls[2].ret) = 3
    /\ Paths(FilterCalls[1].ret) = <<"item", "about">>
    /\ Paths(FilterCalls[2].arg) = <<"nofollow">>

(***************************************************************************)
(* C26: the seen-set holds only links some rule's link filter returned; a  *)
(* link the extractor of rule i matched and the link filter of rule i      *)
(* dropped is in the argument of the link filter of every later rule j     *)
(* whose extractor matches it, unless a rule before j kept it; when rule   *)
(* j's link filter returns it, its request is built in rule j's turn and   *)
(* tagged j.                                                               *)
(***************************************************************************)
Returned(k) == Range(FilterCalls[k].ret)

C26_DroppedLinkStillOffered ==
    gen.fn = "parse_with_rules" =>
        /\ gen.seen \subseteq UNION {Returned(k) : k \in DOMAIN FilterCalls}
        /\ \A i, j \in DOMAIN FilterCalls :
              i < j =>
                \A l \in Range(ExtractCalls[i].ret) \cap Range(ExtractCalls[j].ret) :
                    (\A m \in 1..(j - 1) : l \notin Returned(m))
                        => l \in Range(FilterCalls[j].arg)
        /\ \A c \in Range(RequestCalls) :
              /\ c.link \in Returned(c.rule + 1)
              /\ c.arg.meta.rule = c.rule
        /\ gen.pc = "closed" =>
              \A j \in DOMAIN FilterCalls : \A l \in Returned(j) :
                  \E c \in Range(RequestCalls) :
                      /\ c.link = l
                      /\ c.rule = FilterCalls[j].rule
                      /\ IsRequest(c.ret) /\ "rule" \in DOMAIN c.ret.meta
                            => c.ret.meta.rule = FilterCalls[j].rule

\* The first rule's extractor matched the nofollow link and its link filter
\* dropped it; the second rule emitted the request for it, tagged 1
C26_Witness ==
    /\ gen.fn = "parse_with_rules"
    /\ gen.pc = "closed"
    /\ Len(FilterCalls) = 2
    /\ \E l \in Range(ExtractCalls[1].ret) :
          /\ l.url.path = "nofollow"
          /\ l \in Range(FilterCalls[1].arg)
          /\ l \notin Returned(1)
          /\ \E c \in Range(RequestCalls) :
                /\ c.link = l
                /\ c.rule = 1
                /\ IsRequest(c.ret)
                /\ c.ret.meta.rule = 1
                /\ c.ret \in Range(gen.out)

(***************************************************************************)
(* C27: for every result shape (None, a list or a generator, a coroutine,  *)
(* an asynchronous generator), what has been emitted when the handling of  *)
(* a failure by an errback that returns the result has ended is what a     *)
(* traversal emits whose callback returns the same result with follow off, *)
(* and it ends the same way.                                               *)
(***************************************************************************)
RECURSIVE RunAlone(_)
RunAlone(g) ==
    IF Suspended(g) THEN RunAlone(Resume(_rules, _follow_links, g))
    ELSE IF g.pc = "await" THEN RunAlone(Await(_rules, _follow_links, g))
    ELSE g

C27_ErrbackLikeCallback ==
    /\ gen.fn = "_handle_failure"
    /\ truthy(gen.callback)
    /\ Ended
    => LET same == RunAlone(parse_with_rules(gen.request, gen.response,
                                             gen.callback, NoKwargs, FALSE))
       IN gen.pc = same.pc /\ gen.out = same.out

(***************************************************************************)
(* C28: in what a traversal emits for its callback's result, an element of *)
(* the result that is itself a list or a generator of items is replaced by *)
(* its own elements, in their order, and every other element is emitted as *)
(* it is: [a, [b, c], d] gives a, b, c, d, and nothing nested is emitted.  *)
(***************************************************************************)
Size(x) == IF x.kind = "nested" THEN Len(x.items) ELSE 1

\* Where the elements of the k-th element of the result begin in the output
RECURSIVE Offset(_, _)
Offset(items, k) == IF k = 1 THEN 0 ELSE Offset(items, k - 1) + Size(items[k - 1])

UndefinedFilter(i) ==
    \/ rules[i].process_links = Str("missing")
    \/ rules[i].process_request = Str("missing")

\* The compiled rule with the default filter in the place of an absent one
Defaulted(rule) ==
    [ rule EXCEPT !.process_links = IF @ = None THEN Func("_identity") ELSE @,
                  !.process_request = IF @ = None
                                      THEN Func("_identity_process_request")
                                      ELSE @ ]

C29_UndefinedFilterIsAbsent ==
    /\ gen.fn = "parse_with_rules"
    /\ gen.response.cls = "HtmlResponse"
    /\ \E i \in DOMAIN rules : UndefinedFilter(i)
    => /\ gen.pc # "raised"
       /\ gen.pc = "closed" =>
             gen.out = AloneIn([i \in DOMAIN _rules |-> Defaulted(_rules[i])],
                               Fresh(gen)).out

(***************************************************************************)
(* C30: a link a rule's link filter returned is in the seen-set by the     *)
(* time the rule's request filter is called for it; so when the request    *)
(* filter returns None for it or rewrites its URL, the link is in the      *)
(* argument of no later rule's link filter and no later rule has a request *)
(* built or emitted for it in the same traversal.                          *)
(***************************************************************************)
Withheld(c) == IF c.ret = None THEN TRUE ELSE c.ret.url # c.link.url

C30_SeenBeforeRequestFilter ==
    gen.fn = "parse_with_rules" =>
        \A k \in DOMAIN RequestCalls :
            LET c == RequestCalls[k]
            IN /\ c.link \in gen.seen
               /\ Withheld(c) =>
                     /\ \A f \in Range(FilterCalls) :
                           f.rule > c.rule => c.link \notin Range(f.arg)
                     /\ \A j \in DOMAIN RequestCalls :
                           j # k => RequestCalls[j].link # c.link
                     /\ \A j \in DOMAIN gen.out :
                           ~(IsRequest(gen.out[j]) /\ gen.out[j].url = c.link.url)

\* The first rule's request filter returned None for the about link, the
\* second rule's extractor matched it, and the traversal has ended with no
\* request for it
C30_Witness ==
    /\ gen.fn = "parse_with_rules"
    /\ gen.pc = "closed"
    /\ Len(ExtractCalls) = 2
    /\ \E k \in DOMAIN RequestCalls :
          /\ RequestCalls[k].rule = 0
          /\ RequestCalls[k].ret = None
          /\ RequestCalls[k].link \in Range(ExtractCalls[2].ret)
          /\ RequestCalls[k].link \notin Range(FilterCalls[2].arg)
    /\ \A j \in DOMAIN gen.out :
          IsRequest(gen.out[j]) => gen.out[j].url.path # "about"

(***************************************************************************)
(* C31: in a traversal, no link extractor, link filter or request filter   *)
(* is called before the callback's output has been emitted to its end, and *)
(* the callback's call comes before theirs; when the callback raises, or   *)
(* its output raises while it is drained or collected, none of them is     *)
(* ever called, no follow request is emitted for the response, and what    *)
(* was emitted before the error is a beginning of the callback's output.   *)
(***************************************************************************)
FollowCalls == SelectSeq(gen.calls, LAMBDA c : c.fn # "callback")

C31_FollowAfterCallbackOutput ==
    gen.fn = "parse_with_rules" =>
        /\ FollowCalls # <<>> =>
              /\ gen.cb_res = <<>>
              /\ CallbackCalls # <<>> =>
                    /\ gen.calls[1].fn = "callback"
                    /\ CallbackResult.shape # "raise"
                    /\ CallbackResult.end = "stop"
                    /\ IsPrefix(CallbackResult.items, gen.out)
        /\ CallbackRaises =>
              /\ FollowCalls = <<>>
              /\ gen.seen = {}
              /\ \A k \in DOMAIN gen.out : ~IsRequest(gen.out[k])
              /\ IsPrefix(gen.out, CallbackResult.items)
              /\ gen.pc \notin {"closed", "yield_follow"}
        /\ CallbackCalls # <<>> /\ CallbackResult.end = "loop" =>
              FollowCalls = <<>> /\ gen.pc \notin {"closed", "yield_follow"}

\* On an HTML response, with follow on and the instance following links,
\* the callback's generator raised after its first item: the item was
\* emitted, the traversal ended with the error and nothing was extracted
C31_Witness ==
    /\ gen.fn = "parse_with_rules"
    /\ gen.response.cls = "HtmlResponse"
    /\ gen.follow
    /\ _follow_links = Bool(TRUE)
    /\ CallbackRaises
    /\ CallbackResult.items = <<Item("a")>>
    /\ gen.out = <<Item("a")>>
    /\ gen.pc = "raised"
    /\ FollowCalls = <<>>

(***************************************************************************)
(* C32: _callback has the originating rule's callback called with the keys *)
(* of the rule's cb_kwargs and of the cb_kwargs that came with the         *)
(* response, each key with the value that came with the response when it   *)
(* has one and the rule's value otherwise; the rule's own cb_kwargs stay   *)
(* as declared.                                                            *)
(***************************************************************************)
Supplied == gen.request.cb_kwargs

C32_KwargsMerged ==
    /\ \A i \in DOMAIN _rules : _rules[i].cb_kwargs = rules[i].cb_kwargs
    /\ FromCallback =>
          /\ DOMAIN gen.cb_kwargs = DOMAIN OriginRule.cb_kwargs \cup DOMAIN Supplied
          /\ \A k \in DOMAIN Supplied : gen.cb_kwargs[k] = Supplied[k]
          /\ \A k \in DOMAIN OriginRule.cb_kwargs \ DOMAIN Supplied :
                gen.cb_kwargs[k] = OriginRule.cb_kwargs[k]
          /\ \A c \in Range(CallbackCalls) :
                /\ c.f = OriginRule.callback
                /\ c.cb_kwargs = gen.cb_kwargs

\* The callback of a rule that declares page = "x" was called for a response
\* that came with page = "y": it was called with "y", and the rule still
\* holds "x"
C32_Witness ==
    /\ FromCallback
    /\ CallbackCalls # <<>>
    /\ OriginRule.cb_kwargs = [page |-> "x"]
    /\ Supplied = [page |-> "y"]
    /\ CallbackCalls[1].cb_kwargs = [page |-> "y"]
    /\ _rules[gen.request.meta.rule + 1].cb_kwargs = [page |-> "x"]

(***************************************************************************)
(* C33: however the spider was constructed, directly or through            *)
(* from_crawler, _follow_links is defined when a response is traversed,    *)
(* and no traversal with follow enabled ends on the missing attribute.     *)
(* A spider constructed directly has no _follow_links (only from_crawler   *)
(* assigns it), and its traversal with follow enabled raises               *)
(* AttributeError.                                                         *)
(***************************************************************************)
C33_FollowLinksDefined ==
    gen.fn = "parse_with_rules" =>
        /\ _follow_links \in {Bool(TRUE), Bool(FALSE)}
        /\ gen.follow => gen.error # "AttributeError"

====
